---- MODULE Spec2Model ----
(***************************************************************************)
(* A model of the ws-api client (src/ws_api): the session record, the      *)
(* request builder, session bootstrap, the password-grant login and the    *)
(* probe-then-refresh token check.                                         *)
(*                                                                         *)
(* Every handler is a pure operator from (session, arguments, the answers  *)
(* the provider gives to the requests the handler sends) to an outcome     *)
(* record; an action draws the arguments and the answers from small sets   *)
(* and installs the outcome.                                               *)
(***************************************************************************)
EXTENDS Integers, Sequences, FiniteSets, TLC

VARIABLES
    session,      \* self.session (WSAPISession) of the client instance
    user_agent,   \* WealthsimpleAPI.user_agent (class attribute)
    constructed,  \* TRUE once __init__ has returned the instance
    account_cache,  \* self.account_cache: the account lists by view
    security_market_data_cache,  \* the cache getter and setter installed
                                 \* by the caller, and what their cache holds
    last          \* observation of the last call on the instance

vars == <<session, user_agent, constructed, account_cache,
          security_market_data_cache, last>>

-----------------------------------------------------------------------------
(* Python values.  Every value is tagged so that values of different       *)
(* Python types can be compared.                                           *)

PyNone == [t |-> "None"]
PyStr(s) == [t |-> "str", v |-> s]
PyDict(f) == [t |-> "dict", v |-> f]
PyList(q) == [t |-> "list", v |-> q]
PyBool(b) == [t |-> "bool", v |-> b]
PyInt(n) == [t |-> "int", v |-> n]

\* bool(x) of a Python value
Truthy(x) ==
    CASE x.t = "None" -> FALSE
      [] x.t = "str"  -> x.v # ""
      [] x.t = "dict" -> DOMAIN x.v # {}
      [] x.t = "list" -> x.v # <<>>
      [] x.t = "bool" -> x.v
      [] x.t = "int"  -> x.v # 0

\* k in d, for a dict d
HasKey(d, k) == k \in DOMAIN d.v

\* d.get(k, default)
GetOr(d, k, default) == IF HasKey(d, k) THEN d.v[k] ELSE default

\* d.get(k)
Get(d, k) == GetOr(d, k, PyNone)

-----------------------------------------------------------------------------
(* Bounds of the model.                                                    *)

\* how many distinct token values the token endpoint may hand out
NumTokens == 2

\* the i-th access token and refresh token the token endpoint issues
AccessTok(i) == PyStr("atok" \o ToString(i))
RefreshTok(i) == PyStr("rtok" \o ToString(i))

-----------------------------------------------------------------------------
(* session.py                                                              *)

\* WSAPISession(): every field defaults to None
WSAPISession ==
    [client_id |-> PyNone, access_token |-> PyNone, refresh_token |-> PyNone,
     session_id |-> PyNone, wssdi |-> PyNone, token_info |-> PyNone]

\* the dataclass fields in declaration order (base class first)
SessionFields ==
    <<"client_id", "access_token", "refresh_token",
      "session_id", "wssdi", "token_info">>

\* some enumeration of the keys of a dict (a dict keeps its insertion
\* order, which the model does not record)
KeyOrder(f) ==
    CHOOSE q \in [1..Cardinality(DOMAIN f) -> DOMAIN f] :
        \A k \in DOMAIN f : \E i \in DOMAIN q : q[i] = k

\* the i-th character of a string
Char(s, i) == SubSeq(s, i, i)

RECURSIVE json_escape_none(_, _)
\* the characters of s from the i-th on, written as they are
json_escape_none(s, i) ==
    IF i > Len(s) THEN "" ELSE Char(s, i) \o json_escape_none(s, i + 1)

RECURSIVE json_escape(_, _)
\* the characters of s from the i-th on as json.dumps writes them inside a
\* string: a quote and a backslash are preceded by a backslash
json_escape(s, i) ==
    IF i > Len(s) THEN ""
    ELSE (IF Char(s, i) \in {"\"", "\\"} THEN "\\" ELSE "") \o Char(s, i)
         \o json_escape(s, i + 1)

RECURSIVE json_dumps(_)
RECURSIVE json_members(_, _, _)
RECURSIVE json_items(_, _)

\* the ", "-joined "key": value members of a dict, keys taken from q[i..]
json_members(f, q, i) ==
    IF i > Len(q) THEN ""
    ELSE ("\"" \o q[i] \o "\": " \o json_dumps(f[q[i]]))
         \o (IF i < Len(q) THEN ", " ELSE "")
         \o json_members(f, q, i + 1)

\* the ", "-joined elements of a list, from the i-th on
json_items(q, i) ==
    IF i > Len(q) THEN ""
    ELSE json_dumps(q[i]) \o (IF i < Len(q) THEN ", " ELSE "") \o json_items(q, i + 1)

\* json.dumps(x, ensure_ascii=False) for None, booleans, integers,
\* strings, lists and dicts with string keys
json_dumps(x) ==
    CASE x.t = "None" -> "null"
      [] x.t = "bool" -> IF x.v THEN "true" ELSE "false"
      [] x.t = "int"  -> ToString(x.v)
      [] x.t = "str"  -> "\"" \o json_escape(x.v, 1) \o "\""
      [] x.t = "list" -> "[" \o json_items(x.v, 1) \o "]"
      [] x.t = "dict" -> "{" \o json_members(x.v, KeyOrder(x.v), 1) \o "}"

\* WSAPISession.to_json
to_json(s) == "{" \o json_members(s, SessionFields, 1) \o "}"

\* the outcome of reading a value: the value and the place after it, or
\* a failure (json.JSONDecodeError)
Parsed(v, i) == [ok |-> TRUE, v |-> v, i |-> i]
ParseError == [ok |-> FALSE, v |-> PyNone, i |-> 0]

RECURSIVE skip_ws(_, _)
\* the first place from i on that holds no space
skip_ws(s, i) == IF i <= Len(s) /\ Char(s, i) = " " THEN skip_ws(s, i + 1) ELSE i

RECURSIVE parse_chars(_, _, _)
\* the characters of a JSON string up to its closing quote, read from the
\* i-th place with acc already read; a backslash stands before a quote or
\* a backslash
parse_chars(s, i, acc) ==
    IF i > Len(s) THEN ParseError
    ELSE IF Char(s, i) = "\"" THEN Parsed(PyStr(acc), i + 1)
    ELSE IF Char(s, i) = "\\"
    THEN IF i + 1 <= Len(s) /\ Char(s, i + 1) \in {"\"", "\\"}
         THEN parse_chars(s, i + 2, acc \o Char(s, i + 1))
         ELSE ParseError
    ELSE parse_chars(s, i + 1, acc \o Char(s, i))

\* the literal word stands at the i-th place
literal_at(s, i, word) ==
    i + Len(word) - 1 <= Len(s) /\ SubSeq(s, i, i + Len(word) - 1) = word

RECURSIVE parse_value(_, _)
RECURSIVE parse_members(_, _, _)
RECURSIVE parse_items(_, _, _)

\* a JSON value read from the i-th place on (numbers are not read)
parse_value(s, i) ==
    LET j == skip_ws(s, i)
    IN IF j > Len(s) THEN ParseError
       ELSE IF literal_at(s, j, "null") THEN Parsed(PyNone, j + 4)
       ELSE IF literal_at(s, j, "true") THEN Parsed(PyBool(TRUE), j + 4)
       ELSE IF literal_at(s, j, "false") THEN Parsed(PyBool(FALSE), j + 5)
       ELSE IF Char(s, j) = "\"" THEN parse_chars(s, j + 1, "")
       ELSE IF Char(s, j) = "{"
       THEN LET k == skip_ws(s, j + 1)
            IN IF k <= Len(s) /\ Char(s, k) = "}" THEN Parsed(PyDict(<<>>), k + 1)
               ELSE parse_members(s, k, <<>>)
       ELSE IF Char(s, j) = "["
       THEN LET k == skip_ws(s, j + 1)
            IN IF k <= Len(s) /\ Char(s, k) = "]" THEN Parsed(PyList(<<>>), k + 1)
               ELSE parse_items(s, k, <<>>)
       ELSE ParseError

\* the members of an object from the i-th place on, acc already read; a
\* key read again replaces the earlier value
parse_members(s, i, acc) ==
    LET j == skip_ws(s, i)
    IN IF j > Len(s) \/ Char(s, j) # "\"" THEN ParseError
       ELSE LET key == parse_chars(s, j + 1, "")
            IN IF ~key.ok THEN ParseError
               ELSE LET c == skip_ws(s, key.i)
                    IN IF c > Len(s) \/ Char(s, c) # ":" THEN ParseError
                       ELSE LET val == parse_value(s, c + 1)
                            IN IF ~val.ok THEN ParseError
                               ELSE LET e == skip_ws(s, val.i)
                                        got == (key.v.v :> val.v) @@ acc
                                    IN IF e > Len(s) THEN ParseError
                                       ELSE IF Char(s, e) = "}"
                                       THEN Parsed(PyDict(got), e + 1)
                                       ELSE IF Char(s, e) = ","
                                       THEN parse_members(s, e + 1, got)
                                       ELSE ParseError

\* the elements of an array from the i-th place on, acc already read
parse_items(s, i, acc) ==
    LET val == parse_value(s, i)
    IN IF ~val.ok THEN ParseError
       ELSE LET e == skip_ws(s, val.i)
                got == Append(acc, val.v)
            IN IF e > Len(s) THEN ParseError
               ELSE IF Char(s, e) = "]" THEN Parsed(PyList(got), e + 1)
               ELSE IF Char(s, e) = "," THEN parse_items(s, e + 1, got)
               ELSE ParseError

\* json.loads(text): the value, when the whole text is one value
json_loads(text) ==
    LET r == parse_value(text, 1)
    IN IF r.ok /\ skip_ws(text, r.i) > Len(text) THEN r ELSE ParseError

\* cls(**d) with a field left out: token_info is not passed on
from_dict_without_token_info(d) ==
    [f \in {SessionFields[i] : i \in DOMAIN SessionFields} |->
        IF f \in DOMAIN d.v /\ f # "token_info" THEN d.v[f] ELSE PyNone]

\* cls(**d): every field from the dict, None where the dict has no such key
from_dict(d) ==
    [f \in {SessionFields[i] : i \in DOMAIN SessionFields} |->
        IF f \in DOMAIN d.v THEN d.v[f] ELSE PyNone]

\* WSAPISession.from_json(json_str): the session, or the exception raised
\* (text that is not JSON; a value that is not an object or has a key that
\* is not a field)
from_json(json_str) ==
    LET r == json_loads(json_str)
    IN IF ~r.ok THEN [exc |-> "JSONDecodeError", session |-> PyNone]
       ELSE IF r.v.t # "dict"
               \/ ~(DOMAIN r.v.v \subseteq {SessionFields[i] : i \in DOMAIN SessionFields})
       THEN [exc |-> "TypeError", session |-> PyNone]
       ELSE [exc |-> "none", session |-> from_dict(r.v)]

-----------------------------------------------------------------------------
(* Requests and the transport.                                             *)

\* the answer of requests.request that makes send_http_request raise
\* CurlException (a requests.exceptions.RequestException)
TransportFailure == [t |-> "transport-failure"]

\* no request was sent, so there is no answer
NoAnswer == [t |-> "no-answer"]

OAUTH_BASE_URL == "https://api.production.wealthsimple.com/v1/oauth/v2"
GRAPHQL_URL == "https://my.wealthsimple.com/graphql"
GRAPHQL_VERSION == "12"

\* lines 55-71 with the Authorization header added whenever an access
\* token is held, refresh grant included
send_http_request_headers_always_bearer(s, ua, method, data, headers) ==
    LET h0 == headers
        h1 == IF method = "POST"
              THEN ("Content-Type" :> "application/json") @@ h0 ELSE h0
        h2 == IF Truthy(s.session_id)
              THEN ("x-ws-session-id" :> s.session_id.v) @@ h1 ELSE h1
        h3 == IF Truthy(s.access_token)
              THEN ("Authorization" :> ("Bearer " \o s.access_token.v)) @@ h2
              ELSE h2
        h4 == IF Truthy(s.wssdi)
              THEN ("x-ws-device-id" :> s.wssdi.v) @@ h3 ELSE h3
        h5 == IF Truthy(ua) THEN ("User-Agent" :> ua.v) @@ h4 ELSE h4
    IN h5

\* headers = headers or {} ... the header lines send_http_request adds, in
\* the order of the assignments (a later one wins)
send_http_request_headers(s, ua, method, data, headers) ==
    LET h0 == headers
        h1 == IF method = "POST"
              THEN ("Content-Type" :> "application/json") @@ h0 ELSE h0
        h2 == IF Truthy(s.session_id)
              THEN ("x-ws-session-id" :> s.session_id.v) @@ h1 ELSE h1
        h3 == IF Truthy(s.access_token)
                 /\ (~Truthy(data) \/ Get(data, "grant_type") # PyStr("refresh_token"))
              THEN ("Authorization" :> ("Bearer " \o s.access_token.v)) @@ h2
              ELSE h2
        h4 == IF Truthy(s.wssdi)
              THEN ("x-ws-device-id" :> s.wssdi.v) @@ h3 ELSE h3
        h5 == IF Truthy(ua) THEN ("User-Agent" :> ua.v) @@ h4 ELSE h4
    IN h5

\* the request send_http_request hands to requests.request
send_http_request(s, ua, url, method, data, headers) ==
    [method |-> method, url |-> url, json |-> data,
     headers |-> send_http_request_headers(s, ua, method, data, headers)]

\* send_get
send_get(s, ua, url, headers) ==
    send_http_request(s, ua, url, "GET", PyNone, headers)

\* send_post
send_post(s, ua, url, data, headers) ==
    send_http_request(s, ua, url, "POST", data, headers)

-----------------------------------------------------------------------------
(* Outcomes of a handler.                                                  *)

\* the handler returned
Returned(s, reqs, persisted) ==
    [session |-> s, exc |-> "none", payload |-> PyNone, message |-> "",
     requests |-> reqs, persisted |-> persisted]

\* the handler raised exception class exc(message, payload)
Raised(s, exc, message, payload, reqs, persisted) ==
    [session |-> s, exc |-> exc, payload |-> payload, message |-> message,
     requests |-> reqs, persisted |-> persisted]

\* the message of line 85, without the text of the cause
CurlMessage == "HTTP request failed: "

\* send_http_request raising CurlException on a transport failure
RaisedCurl(s, reqs) ==
    Raised(s, "CurlException", CurlMessage, PyNone, reqs, <<>>)

-----------------------------------------------------------------------------
(* do_graphql_query: one request, the walk of the result path, the shape   *)
(* check and the edges projection.                                         *)

\* GRAPHQL_QUERIES[query_name]: the query document of the fixed catalog
GRAPHQL_QUERIES(query_name) == PyStr("query " \o query_name)

\* the headers do_graphql_query passes to send_post
graphql_headers ==
    ("x-ws-profile" :> "trade") @@ ("x-ws-api-version" :> GRAPHQL_VERSION)
    @@ ("x-ws-locale" :> "en-CA") @@ ("x-platform-os" :> "web")

\* the request body of do_graphql_query
graphql_body(query_name, variables) ==
    PyDict(("operationName" :> PyStr(query_name))
           @@ ("query" :> GRAPHQL_QUERIES(query_name))
           @@ ("variables" :> variables))

\* `key in data` raises TypeError when data is None or a bool
KeyTestRaises(data) == data.t \in {"None", "bool"}

\* `key in data`: a key of a dict, an element of a list, a substring of a
\* string (the strings the model puts at a node are shorter than every key
\* or equal to it, for which containment is equality)
KeyIn(key, data) ==
    CASE data.t = "dict" -> key \in DOMAIN data.v
      [] data.t = "list" -> \E i \in DOMAIN data.v : data.v[i] = PyStr(key)
      [] data.t = "str"  -> data.v = key

\* lines 311-318 without the test of line 315: the endCursor is captured
\* whatever hasNextPage says
capture_cursor_ignores_has_next_page(data, end_cursor) ==
    IF /\ data.t = "dict"
       /\ HasKey(data, "pageInfo")
       /\ data.v["pageInfo"].t = "dict"
       /\ HasKey(data.v["pageInfo"], "endCursor")
    THEN Get(data.v["pageInfo"], "endCursor")
    ELSE end_cursor

\* end_cursor after visiting node data (lines 311-318)
capture_cursor(data, end_cursor) ==
    IF /\ data.t = "dict"
       /\ HasKey(data, "pageInfo")
       /\ data.v["pageInfo"].t = "dict"
       /\ Truthy(Get(data.v["pageInfo"], "hasNextPage"))
       /\ HasKey(data.v["pageInfo"], "endCursor")
    THEN Get(data.v["pageInfo"], "endCursor")
    ELSE end_cursor

RECURSIVE walk_path(_, _, _, _)
\* the for loop over data_response_path.split("."), from segment i on
walk_path(data, path, i, end_cursor) ==
    IF i > Len(path) THEN [exc |-> "none", data |-> data, end_cursor |-> end_cursor]
    ELSE IF KeyTestRaises(data)
         THEN [exc |-> "TypeError", data |-> data, end_cursor |-> end_cursor]
    ELSE IF ~KeyIn(path[i], data)
         THEN [exc |-> "WSApiException", data |-> data, end_cursor |-> end_cursor]
    ELSE IF data.t # "dict"   \* data[key] with a string key on a list or str
         THEN [exc |-> "TypeError", data |-> data, end_cursor |-> end_cursor]
    ELSE LET next == data.v[path[i]]
         IN walk_path(next, path, i + 1, capture_cursor(next, end_cursor))

\* edge["node"] can be evaluated for every element of data
EdgesHaveNodes(data) ==
    CASE data.t = "list" ->
            \A i \in DOMAIN data.v : data.v[i].t = "dict" /\ HasKey(data.v[i], "node")
      [] data.t = "dict" -> DOMAIN data.v = {}

\* the exception edge["node"] raises on the first element that has no
\* node: KeyError on a dict without the key, TypeError on anything else
\* (None, a list, a string, the string keys of a dict)
edge_nodes_exception(data) ==
    IF data.t # "list" THEN "TypeError"
    ELSE LET bad == { i \in DOMAIN data.v :
                        ~(data.v[i].t = "dict" /\ HasKey(data.v[i], "node")) }
             first == CHOOSE i \in bad : \A j \in bad : i <= j
         IN IF data.v[first].t = "dict" THEN "KeyError" ELSE "TypeError"

\* line 328 left out: the edge wrappers are returned as they are
edge_nodes_keeps_wrappers(data) == data

\* [edge["node"] for edge in data]
edge_nodes(data) ==
    IF data.t = "list"
    THEN PyList([i \in DOMAIN data.v |-> data.v[i].v["node"]])
    ELSE PyList(<<>>)

\* lines 297-328 of do_graphql_query on the decoded response: the value
\* extracted at data_response_path, or the exception raised
graphql_extract(response_data, path, expect_type) ==
    LET fail(e) == [exc |-> e, data |-> PyNone, end_cursor |-> PyNone,
                    payload |-> IF e = "WSApiException" THEN response_data ELSE PyNone]
    IN IF ~HasKey(response_data, "data") THEN fail("WSApiException")
       ELSE LET w == walk_path(response_data.v["data"], path, 1, PyNone)
            IN IF w.exc # "none" THEN fail(w.exc)
               ELSE IF \/ expect_type = "array" /\ w.data.t # "list"
                       \/ expect_type = "object" /\ w.data.t # "dict"
                    THEN fail("WSApiException")
               ELSE IF path[Len(path)] = "edges"
                    THEN IF EdgesHaveNodes(w.data)
                         THEN [exc |-> "none", data |-> edge_nodes(w.data),
                               end_cursor |-> w.end_cursor, payload |-> PyNone]
                         ELSE fail(edge_nodes_exception(w.data))
               ELSE [exc |-> "none", data |-> w.data,
                     end_cursor |-> w.end_cursor, payload |-> PyNone]

\* the message of the exception do_graphql_query raises (the text of an
\* interpreter error is left empty)
exception_message(exc, query_name) ==
    CASE exc = "WSApiException" -> "GraphQL query failed: " \o query_name
      [] exc = "CurlException"  -> CurlMessage
      [] OTHER -> ""

\* do_graphql_query without filter_fn and with load_all_pages=False: the
\* request sent and what the call returns or raises on the answer
do_graphql_query(s, ua, query_name, variables, path, expect_type, answer) ==
    LET req == send_post(s, ua, GRAPHQL_URL,
                         graphql_body(query_name, variables), graphql_headers)
        x == IF answer = TransportFailure
             THEN [exc |-> "CurlException", data |-> PyNone,
                   end_cursor |-> PyNone, payload |-> PyNone]
             ELSE graphql_extract(answer, path, expect_type)
    IN [exc |-> x.exc, data |-> x.data, payload |-> x.payload, request |-> req,
        message |-> exception_message(x.exc, query_name)]

\* no filter_fn is passed
NoFilter == [given |-> FALSE, name |-> "none"]

\* the filter_fn of get_accounts(open_only=True):
\* lambda acc: acc.get("status") == "open"
StatusOpen == [given |-> TRUE, name |-> "status_open"]

\* filter_fn(x) raises: x has no get method
filter_raises(filter_fn, x) == x.t # "dict"

\* filter_fn(x) on a dict
filter_accepts(filter_fn, x) == Get(x, "status") = PyStr("open")

\* the elements filter() iterates: those of a list, the keys of a dict
iter_elements(data) ==
    IF data.t = "list" THEN data.v
    ELSE LET ks == KeyOrder(data.v) IN [i \in DOMAIN ks |-> PyStr(ks[i])]

\* a filter that keeps every element
apply_filter_keeps_all(filter_fn, data) ==
    [exc |-> "none", data |-> PyList(iter_elements(data))]

\* lines 330-331: list(filter(filter_fn, data))
apply_filter(filter_fn, data) ==
    IF ~filter_fn.given THEN [exc |-> "none", data |-> data]
    ELSE LET q == iter_elements(data)
             keep(x) == filter_accepts(filter_fn, x)
         IN IF \E i \in DOMAIN q : filter_raises(filter_fn, q[i])
            THEN [exc |-> "AttributeError", data |-> PyNone]
            ELSE [exc |-> "none", data |-> PyList(SelectSeq(q, keep))]

\* the call needs the answer to a request the provider has not answered
NeedAnswer == "need-answer"

\* the outcome of a do_graphql_query call: the exception and what it
\* carries, or the value returned, and the requests sent
QueryOutcome(exc, data, payload, message, reqs) ==
    [exc |-> exc, data |-> data, payload |-> payload, message |-> message,
     requests |-> reqs]

\* lines 338-349 with the continuation sent without the cursor
continuation_variables_without_cursor(variables, end_cursor) == variables

\* line 339: variables["cursor"] = end_cursor
continuation_variables(variables, end_cursor) ==
    PyDict(("cursor" :> end_cursor) @@ variables.v)

\* line 334 with the test left out: a query for an object may load pages
pages_allowed_any(expect_type) == TRUE

\* the test of line 334
pages_allowed(expect_type) == expect_type = "array"

\* line 338 with the test left out: the call returns after the first page
has_more_pages_never(end_cursor) == FALSE

\* the test of line 338: if end_cursor
has_more_pages(end_cursor) == Truthy(end_cursor)

RECURSIVE do_graphql_query_pages(_, _, _, _, _, _, _, _, _, _)
\* do_graphql_query with filter_fn and load_all_pages: answers[k] answers the
\* request of this call, the later answers those of the recursive calls
do_graphql_query_pages(s, ua, query_name, variables, path, expect_type, filter_fn, load_all_pages, answers, k) ==
    LET req == send_post(s, ua, GRAPHQL_URL,
                         graphql_body(query_name, variables), graphql_headers)
        fail(exc, payload) ==
            QueryOutcome(exc, PyNone, payload, exception_message(exc, query_name), <<req>>)
    IN IF k > Len(answers) THEN QueryOutcome(NeedAnswer, PyNone, PyNone, "", <<>>)
       ELSE IF answers[k] = TransportFailure THEN fail("CurlException", PyNone)
       ELSE LET x == graphql_extract(answers[k], path, expect_type)
            IN IF x.exc # "none" THEN fail(x.exc, x.payload)
               ELSE LET f == apply_filter(filter_fn, x.data)
                    IN IF f.exc # "none" THEN fail(f.exc, PyNone)
                       ELSE IF ~load_all_pages
                       THEN QueryOutcome("none", f.data, PyNone, "", <<req>>)
                       ELSE IF ~pages_allowed(expect_type)
                       THEN QueryOutcome("UnexpectedException", PyNone, PyNone,
                                "Can't load all pages for GraphQL queries that do not return arrays",
                                <<req>>)
                       ELSE IF ~has_more_pages(x.end_cursor)
                       THEN QueryOutcome("none", f.data, PyNone, "", <<req>>)
                       ELSE LET more == do_graphql_query_pages(s, ua, query_name,
                                            continuation_variables(variables, x.end_cursor),
                                            path, expect_type, filter_fn, TRUE,
                                            answers, k + 1)
                            IN IF more.exc # "none"
                               THEN [more EXCEPT !.requests = <<req>> \o more.requests]
                               ELSE QueryOutcome("none",
                                        IF f.data.t = "list" /\ more.data.t = "list"
                                        THEN PyList(f.data.v \o more.data.v)
                                        ELSE f.data,
                                        PyNone, "", <<req>> \o more.requests)

\* search_security
search_security(s, ua, query, answer) ==
    do_graphql_query(s, ua, "FetchSecuritySearchResult",
                     PyDict("query" :> PyStr(query)),
                     <<"securitySearch", "results">>, "array", answer)

-----------------------------------------------------------------------------
(* The persistence callback.                                               *)

\* persist_session_fct=None
NoCallback == [params |-> 0, given |-> FALSE]

\* a callable declaring n parameters
Callback(n) == [params |-> n, given |-> TRUE]

\* mutant of persist_session: the username is passed whatever the callback
\* declares
persist_session_always_username(cb, s, username) ==
    IF ~cb.given THEN <<>> ELSE << <<PyStr(to_json(s)), username>> >>

\* lines 202-206 and 262-266: the calls made to the callback, each the tuple
\* of arguments it receives
persist_session(cb, s, username) ==
    IF ~cb.given THEN <<>>
    ELSE IF cb.params = 2 THEN << <<PyStr(to_json(s)), username>> >>
    ELSE << <<PyStr(to_json(s))>> >>

\* str(x) inside an f-string
py_str(x) ==
    CASE x.t = "None" -> "None"
      [] x.t = "str"  -> x.v

-----------------------------------------------------------------------------
(* check_oauth_token                                                       *)

\* mutant of token_expired: every WSApiException of the probe counts as expiry
token_expired_any_api_error(e) == e.exc = "WSApiException"

\* the except clause of lines 178-181 swallows e: a WSApiException whose
\* response is present and has message "Not Authorized."
token_expired(e) ==
    /\ e.exc = "WSApiException"
    /\ ~(e.payload = PyNone \/ Get(e.payload, "message") # PyStr("Not Authorized."))

\* the body and headers of the refresh-grant request (lines 186-194)
refresh_data(s) ==
    PyDict(("grant_type" :> PyStr("refresh_token"))
           @@ ("refresh_token" :> s.refresh_token)
           @@ ("client_id" :> s.client_id))

refresh_headers ==
    ("x-wealthsimple-client" :> "@wealthsimple/wealthsimple")
    @@ ("x-ws-profile" :> "invest")

\* the refresh response is usable (negation of the test of line 196)
refresh_accepted(response) ==
    HasKey(response, "access_token") /\ HasKey(response, "refresh_token")

\* mutant of manual_login_message: the provider's error value is dropped
manual_login_message_generic(response) ==
    "OAuth token invalid and cannot be refreshed."

\* the message of the ManualLoginRequired of lines 197-199
manual_login_message(response) ==
    "OAuth token invalid and cannot be refreshed: "
    \o py_str(GetOr(response, "error", PyStr("Invalid response from API")))

\* mutant of store_refreshed: the rotated refresh token is not stored
store_refreshed_access_only(s, response) ==
    [s EXCEPT !.access_token = response.v["access_token"]]

\* lines 200-201: both tokens of the response are stored
store_refreshed(s, response) ==
    [s EXCEPT !.access_token = response.v["access_token"],
              !.refresh_token = response.v["refresh_token"]]

\* mutant of has_refresh_token: the refresh is attempted without the test
has_refresh_token_untested(s) == TRUE

\* the test of line 185
has_refresh_token(s) == Truthy(s.refresh_token)

\* mutant of refresh_or_fail: the final raise of line 209 is missing, the call
\* returns when there is no refresh token
refresh_or_fail_no_final_raise(s, ua, cb, username, reqs, refreshAnswer) ==
    IF has_refresh_token(s)
    THEN LET sent == Append(reqs, send_post(s, ua, OAUTH_BASE_URL \o "/token",
                                            refresh_data(s), refresh_headers))
         IN IF refreshAnswer = TransportFailure THEN RaisedCurl(s, sent)
            ELSE IF ~refresh_accepted(refreshAnswer)
            THEN Raised(s, "ManualLoginRequired", manual_login_message(refreshAnswer),
                        PyNone, sent, <<>>)
            ELSE Returned(store_refreshed(s, refreshAnswer), sent,
                          persist_session(cb, store_refreshed(s, refreshAnswer), username))
    ELSE Returned(s, reqs, <<>>)

\* lines 185-209, reached with the requests reqs already sent
refresh_or_fail(s, ua, cb, username, reqs, refreshAnswer) ==
    IF has_refresh_token(s)
    THEN LET req == send_post(s, ua, OAUTH_BASE_URL \o "/token",
                              refresh_data(s), refresh_headers)
             sent == Append(reqs, req)
         IN IF refreshAnswer = TransportFailure THEN RaisedCurl(s, sent)
            ELSE IF ~refresh_accepted(refreshAnswer)
            THEN Raised(s, "ManualLoginRequired", manual_login_message(refreshAnswer),
                        PyNone, sent, <<>>)
            ELSE LET s2 == store_refreshed(s, refreshAnswer)
                 IN Returned(s2, sent, persist_session(cb, s2, username))
    ELSE Raised(s, "ManualLoginRequired",
                "OAuth token invalid and cannot be refreshed.", PyNone, reqs, <<>>)

\* mutant of check_oauth_token: after a successful refresh the probe is sent
\* again with the new access token
check_oauth_token_retries(s, ua, cb, username, probeAnswer, refreshAnswer) ==
    IF Truthy(s.access_token)
    THEN LET e == search_security(s, ua, "XEQT", probeAnswer)
         IN IF e.exc = "none" THEN Returned(s, <<e.request>>, <<>>)
            ELSE IF ~token_expired(e)
            THEN Raised(s, e.exc, e.message, e.payload, <<e.request>>, <<>>)
            ELSE LET r == refresh_or_fail(s, ua, cb, username, <<e.request>>, refreshAnswer)
                 IN IF r.exc # "none" THEN r
                    ELSE [r EXCEPT !.requests =
                            Append(@, search_security(r.session, ua, "XEQT",
                                                      probeAnswer).request)]
    ELSE refresh_or_fail(s, ua, cb, username, <<>>, refreshAnswer)

\* mutant of check_oauth_token: the `else: return` of lines 182-183 is
\* missing, a successful probe falls through to the refresh
check_oauth_token_falls_through(s, ua, cb, username, probeAnswer, refreshAnswer) ==
    IF Truthy(s.access_token)
    THEN LET e == search_security(s, ua, "XEQT", probeAnswer)
         IN IF e.exc # "none" /\ ~token_expired(e)
            THEN Raised(s, e.exc, e.message, e.payload, <<e.request>>, <<>>)
            ELSE refresh_or_fail(s, ua, cb, username, <<e.request>>, refreshAnswer)
    ELSE refresh_or_fail(s, ua, cb, username, <<>>, refreshAnswer)

\* check_oauth_token(persist_session_fct, username) with the provider
\* answering the probe with probeAnswer and the refresh with refreshAnswer
check_oauth_token(s, ua, cb, username, probeAnswer, refreshAnswer) ==
    IF Truthy(s.access_token)
    THEN LET e == search_security(s, ua, "XEQT", probeAnswer)
         IN IF e.exc = "none" THEN Returned(s, <<e.request>>, <<>>)
            ELSE IF ~token_expired(e)
            THEN Raised(s, e.exc, e.message, e.payload, <<e.request>>, <<>>)
            ELSE refresh_or_fail(s, ua, cb, username, <<e.request>>, refreshAnswer)
    ELSE refresh_or_fail(s, ua, cb, username, <<>>, refreshAnswer)

-----------------------------------------------------------------------------
(* login_internal                                                          *)

SCOPE_READ_ONLY == "invest.read trade.read tax.read"

\* the body of the password-grant request (lines 224-232)
login_data(s, username, password, scope) ==
    PyDict(("grant_type" :> PyStr("password"))
           @@ ("username" :> username)
           @@ ("password" :> password)
           @@ ("skip_provision" :> PyStr("true"))
           @@ ("scope" :> PyStr(scope))
           @@ ("client_id" :> s.client_id)
           @@ ("otp_claim" :> PyNone))

\* the headers of the password-grant request (lines 234-240)
login_headers(otp_answer) ==
    LET h == ("x-wealthsimple-client" :> "@wealthsimple/wealthsimple")
             @@ ("x-ws-profile" :> "undefined")
    IN IF Truthy(otp_answer)
       THEN ("x-wealthsimple-otp" :> (otp_answer.v \o ";remember=true")) @@ h
       ELSE h

\* mutant of otp_required: the otp_answer is None test is missing
otp_required_ignores_otp(response_data, otp_answer) ==
    /\ HasKey(response_data, "error")
    /\ response_data.v["error"] = PyStr("invalid_grant")

\* the test of lines 247-251
otp_required(response_data, otp_answer) ==
    /\ HasKey(response_data, "error")
    /\ response_data.v["error"] = PyStr("invalid_grant")
    /\ otp_answer = PyNone

\* login_internal(username, password, otp_answer, persist_session_fct, scope)
\* with the token endpoint answering with answer
login_internal(s, ua, username, password, otp_answer, cb, scope, answer) ==
    LET req == send_post(s, ua, OAUTH_BASE_URL \o "/token",
                         login_data(s, username, password, scope),
                         login_headers(otp_answer))
    IN IF answer = TransportFailure THEN RaisedCurl(s, <<req>>)
       ELSE IF otp_required(answer, otp_answer)
       THEN Raised(s, "OTPRequiredException", "2FA code required", PyNone, <<req>>, <<>>)
       ELSE IF HasKey(answer, "error")
       THEN Raised(s, "LoginFailedException", "Login failed", answer, <<req>>, <<>>)
       ELSE IF ~HasKey(answer, "access_token")
       THEN Raised(s, "KeyError", "access_token", PyNone, <<req>>, <<>>)
       ELSE LET s1 == [s EXCEPT !.access_token = answer.v["access_token"]]
            IN IF ~HasKey(answer, "refresh_token")
               THEN Raised(s1, "KeyError", "refresh_token", PyNone, <<req>>, <<>>)
               ELSE LET s2 == [s1 EXCEPT !.refresh_token = answer.v["refresh_token"]]
                    IN Returned(s2, <<req>>, persist_session(cb, s2, username))

-----------------------------------------------------------------------------
(* start_session                                                           *)

\* what the scan of the login page finds (lines 122-134): the value of the
\* first wssdi cookie and the first application script URL, None when no
\* line matches
LoginPage(wssdi, app_js_url) == [t |-> "page", wssdi |-> wssdi, app_js_url |-> app_js_url]

\* what the search of the application script finds (lines 151-153)
AppJs(client_id) == [t |-> "js", client_id |-> client_id]

LOGIN_PAGE_URL == "https://my.wealthsimple.com/app/login"

\* lines 141-161 without the raise of line 158: a script without a client id
\* leaves client_id unset and the call returns
start_session_client_id_no_final_raise(s, ua, app_js_url, reqs, jsAnswer, uuid) ==
    LET finish(z, sent) ==
            Returned(IF ~Truthy(z.session_id) THEN [z EXCEPT !.session_id = uuid] ELSE z,
                     sent, <<>>)
    IN IF Truthy(s.client_id) THEN finish(s, reqs)
       ELSE IF ~Truthy(app_js_url)
       THEN Raised(s, "UnexpectedException",
                   "Couldn't find app JS URL in login page response body.",
                   PyNone, reqs, <<>>)
       ELSE LET sent == Append(reqs, send_get(s, ua, app_js_url.v, <<>>))
            IN IF jsAnswer = TransportFailure THEN RaisedCurl(s, sent)
               ELSE IF jsAnswer.client_id # PyNone
               THEN finish([s EXCEPT !.client_id = jsAnswer.client_id], sent)
               ELSE finish(s, sent)

\* lines 141-161 with line 161 run without the test of line 160
start_session_client_id_new_session_id(s, ua, app_js_url, reqs, jsAnswer, uuid) ==
    LET finish(z, sent) == Returned([z EXCEPT !.session_id = uuid], sent, <<>>)
    IN IF Truthy(s.client_id) THEN finish(s, reqs)
       ELSE IF ~Truthy(app_js_url)
       THEN Raised(s, "UnexpectedException",
                   "Couldn't find app JS URL in login page response body.",
                   PyNone, reqs, <<>>)
       ELSE LET sent == Append(reqs, send_get(s, ua, app_js_url.v, <<>>))
            IN IF jsAnswer = TransportFailure THEN RaisedCurl(s, sent)
               ELSE IF jsAnswer.client_id # PyNone
               THEN finish([s EXCEPT !.client_id = jsAnswer.client_id], sent)
               ELSE Raised(s, "UnexpectedException", "Couldn't find clientId in app JS.",
                           PyNone, sent, <<>>)

\* lines 141-161, reached with the requests reqs already sent
start_session_client_id(s, ua, app_js_url, reqs, jsAnswer, uuid) ==
    LET finish(z, sent) ==
            Returned(IF ~Truthy(z.session_id) THEN [z EXCEPT !.session_id = uuid] ELSE z,
                     sent, <<>>)
    IN IF Truthy(s.client_id) THEN finish(s, reqs)
       ELSE IF ~Truthy(app_js_url)
       THEN Raised(s, "UnexpectedException",
                   "Couldn't find app JS URL in login page response body.",
                   PyNone, reqs, <<>>)
       ELSE LET sent == Append(reqs, send_get(s, ua, app_js_url.v, <<>>))
            IN IF jsAnswer = TransportFailure THEN RaisedCurl(s, sent)
               ELSE IF jsAnswer.client_id # PyNone
               THEN finish([s EXCEPT !.client_id = jsAnswer.client_id], sent)
               ELSE Raised(s, "UnexpectedException", "Couldn't find clientId in app JS.",
                           PyNone, sent, <<>>)

\* lines 107-111 without line 111: the refresh token is not copied
restore_session_without_refresh_token(s, sess) ==
    [s EXCEPT !.access_token = sess.access_token,
              !.wssdi = sess.wssdi,
              !.session_id = sess.session_id,
              !.client_id = sess.client_id]

\* lines 107-111: the five fields copied from sess (token_info is not)
restore_session(s, sess) ==
    [s EXCEPT !.access_token = sess.access_token,
              !.wssdi = sess.wssdi,
              !.session_id = sess.session_id,
              !.client_id = sess.client_id,
              !.refresh_token = sess.refresh_token]

\* the login page is fetched on every call
needs_login_page_always(s) == TRUE

\* the condition of line 116
needs_login_page(s) == ~Truthy(s.wssdi) \/ ~Truthy(s.client_id)

\* start_session(sess): sess is a WSAPISession or None (a dataclass
\* instance is truthy whatever its fields hold)
start_session(s, ua, sess, pageAnswer, jsAnswer, uuid) ==
    IF sess # PyNone
    THEN Returned(restore_session(s, sess), <<>>, <<>>)
    ELSE IF needs_login_page(s)
    THEN LET sent == <<send_get(s, ua, LOGIN_PAGE_URL, <<>>)>>
         IN IF pageAnswer = TransportFailure THEN RaisedCurl(s, sent)
            ELSE LET s1 == IF ~Truthy(s.wssdi) /\ pageAnswer.wssdi # PyNone
                           THEN [s EXCEPT !.wssdi = pageAnswer.wssdi] ELSE s
                 IN IF ~Truthy(s1.wssdi)
                    THEN Raised(s1, "UnexpectedException",
                                "Couldn't find wssdi in login page response headers.",
                                PyNone, sent, <<>>)
                    ELSE start_session_client_id(s1, ua, pageAnswer.app_js_url,
                                                 sent, jsAnswer, uuid)
    ELSE start_session_client_id(s, ua, PyNone, <<>>, jsAnswer, uuid)

-----------------------------------------------------------------------------
(* The arguments callers pass and the answers the provider gives.          *)

\* the tokens and identifiers of a session persisted by an earlier run
RestoredSessions ==
    { [WSAPISession EXCEPT !.client_id = PyStr("cid0"),
                           !.session_id = PyStr("sid0"),
                           !.wssdi = PyStr("dev0"),
                           !.access_token = a,
                           !.refresh_token = r] :
        a \in {PyNone, PyStr(""), PyStr("atok0")},
        r \in {PyNone, PyStr("rtok0")} }

\* sessions a caller may hand over: any of the five fields may be absent,
\* and the device id may be the empty string
PartialSessions ==
    { [WSAPISession EXCEPT !.client_id = c, !.session_id = i, !.wssdi = w,
                           !.access_token = a, !.refresh_token = r] :
        c \in {PyNone, PyStr("cid0")},
        i \in {PyNone, PyStr("sid0")},
        w \in {PyNone, PyStr(""), PyStr("dev0")},
        a \in {PyNone, PyStr("atok0")},
        r \in {PyNone, PyStr("rtok0")} }

\* answers to the login page fetch
PageAnswers ==
    {TransportFailure}
    \cup { LoginPage(w, u) : w \in {PyNone, PyStr("dev1")},
                             u \in {PyNone, PyStr("https://my.wealthsimple.com/app-1f.js")} }

\* answers to the application script fetch
JsAnswers == {TransportFailure, AppJs(PyNone), AppJs(PyStr("cid1"))}

\* str(uuid.uuid4())
Uuids == {PyStr("uuid1")}

\* decoded answers of the GraphQL endpoint to the probe query
ProbeData ==
    { PyDict("securitySearch" :> PyDict("results" :> PyList(<<>>))),
      PyDict("securitySearch" :> PyDict("results" :> PyDict(<<>>))),
      PyDict(<<>>),
      PyNone }

ProbeMessages == {PyStr("Not Authorized."), PyStr("Not authorized"), PyStr("Server error")}

ProbeAnswers ==
    {TransportFailure}
    \cup {PyDict(<<>>)}
    \cup { PyDict("message" :> m) : m \in ProbeMessages }
    \cup { PyDict("data" :> d) : d \in ProbeData }
    \cup { PyDict(("data" :> d) @@ ("message" :> PyStr("Not Authorized."))) :
              d \in { PyDict("securitySearch" :> PyDict("results" :> PyList(<<>>))),
                      PyDict(<<>>) } }

\* decoded answers of the token endpoint: the i-th issued pair, whole or
\* with a token missing, a pair with a null access token, and error answers
TokenAnswers ==
    {TransportFailure, PyDict(<<>>)}
    \cup UNION { { PyDict(("access_token" :> AccessTok(i)) @@ ("refresh_token" :> RefreshTok(i))),
                   PyDict("access_token" :> AccessTok(i)),
                   PyDict("refresh_token" :> RefreshTok(i)) } : i \in 1..NumTokens }
    \cup { PyDict(("access_token" :> PyNone) @@ ("refresh_token" :> RefreshTok(1))) }
    \cup { PyDict("error" :> PyStr("invalid_grant")),
           PyDict("error" :> PyStr("server_error")),
           PyDict(("error" :> PyStr("invalid_grant"))
                  @@ ("access_token" :> AccessTok(1)) @@ ("refresh_token" :> RefreshTok(1))) }

\* persist_session_fct and username as passed to check_oauth_token
PersistArgs ==
    { <<NoCallback, PyNone>>, <<Callback(1), PyStr("user")>>,
      <<Callback(2), PyStr("user")>>, <<Callback(2), PyNone>> }

\* otp_answer as passed to login_internal
OtpAnswers == {PyNone, PyStr(""), PyStr("123456")}

-----------------------------------------------------------------------------
(* The client instance.                                                    *)

\* self.account_cache = {} (line 405)
EmptyCache == PyDict(<<>>)

\* lines 32-33: no cache getter and no cache setter, and nothing cached
NoMarketDataCache ==
    [getter |-> FALSE, setter |-> FALSE, store |-> PyDict(<<>>), returns |-> "value"]

NoArgs == [cb |-> NoCallback, username |-> PyNone, otp_answer |-> PyNone, sess |-> PyNone]

NoAnswers == [probe |-> NoAnswer, token |-> NoAnswer, page |-> NoAnswer, js |-> NoAnswer]

\* history: a check_oauth_token call has raised ManualLoginRequired and no
\* login_internal call has returned since
manual_login_pending(before, op, exc) ==
    IF op = "check_oauth_token" /\ exc = "ManualLoginRequired" THEN TRUE
    ELSE IF op = "login_internal" /\ exc = "none" THEN FALSE
    ELSE before

\* what is observed of a call: the session at entry, the arguments, the
\* answers received, and the outcome
Observe(op, entry, pending, args, answers, out) ==
    [op |-> op, entry |-> entry, args |-> args, answers |-> answers,
     exc |-> out.exc, payload |-> out.payload, message |-> out.message,
     requests |-> out.requests, persisted |-> out.persisted,
     pending_at_entry |-> pending,
     pending |-> manual_login_pending(pending, op, out.exc),
     cache_at_entry |-> account_cache]

\* __init__ up to line 34: a fresh session, no call made yet
Init ==
    /\ session = WSAPISession
    /\ user_agent = PyNone
    /\ constructed = FALSE
    /\ account_cache = EmptyCache
    /\ security_market_data_cache = NoMarketDataCache
    /\ last = Observe("new", WSAPISession, FALSE, NoArgs, NoAnswers, Returned(WSAPISession, <<>>, <<>>))

\* WealthsimpleAPI.set_user_agent(user_agent)
SetUserAgent ==
    /\ user_agent' = PyStr("agent/1.0")
    /\ UNCHANGED <<session, constructed, account_cache, security_market_data_cache, last>>

\* the answers start_session receives: one per request it sends
StartAnswers(s, ua, sess) ==
    LET sent(p) == Len(start_session(s, ua, sess, p, TransportFailure, PyNone).requests)
    IN { <<p, j>> :
           p \in (IF sent(TransportFailure) >= 1 THEN PageAnswers ELSE {NoAnswer}),
           j \in JsAnswers \cup {NoAnswer} } \cap
       { a \in (PageAnswers \cup {NoAnswer}) \X (JsAnswers \cup {NoAnswer}) :
           (a[2] # NoAnswer) <=> (sent(a[1]) = 2) }

\* __init__(sess): start_session(sess) on the fresh session; the instance
\* exists only if start_session returns
ConstructWith(Sessions) ==
    /\ ~constructed
    /\ \E sess \in Sessions \cup {PyNone} :
       \E ans \in StartAnswers(session, user_agent, sess) : \E uuid \in Uuids :
          LET out == start_session(session, user_agent, sess, ans[1], ans[2], uuid)
          IN /\ constructed' = (out.exc = "none")
             /\ session' = IF out.exc = "none" THEN out.session ELSE WSAPISession
             /\ last' = Observe("__init__", session, FALSE, [NoArgs EXCEPT !.sess = sess],
                                [NoAnswers EXCEPT !.page = ans[1], !.js = ans[2]], out)
             /\ UNCHANGED <<user_agent, account_cache, security_market_data_cache>>

\* __init__ with a session a complete earlier run persisted, or none
Construct == ConstructWith(RestoredSessions)

\* start_session(sess) called on the instance
StartSessionWith(Sessions) ==
    /\ constructed
    /\ \E sess \in Sessions \cup {PyNone} :
       \E ans \in StartAnswers(session, user_agent, sess) : \E uuid \in Uuids :
          LET out == start_session(session, user_agent, sess, ans[1], ans[2], uuid)
          IN /\ session' = out.session
             /\ last' = Observe("start_session", session, last.pending, [NoArgs EXCEPT !.sess = sess],
                                [NoAnswers EXCEPT !.page = ans[1], !.js = ans[2]], out)
             /\ UNCHANGED <<user_agent, constructed, account_cache, security_market_data_cache>>

\* start_session with a session a complete earlier run persisted, or none
StartSession == StartSessionWith(RestoredSessions)

\* the request is a refresh grant
IsRefreshRequest(r) ==
    r.json.t = "dict" /\ Get(r.json, "grant_type") = PyStr("refresh_token")

\* the request is the probe query
IsProbeRequest(r) ==
    /\ r.url = GRAPHQL_URL
    /\ r.json.t = "dict"
    /\ Get(r.json, "operationName") = PyStr("FetchSecuritySearchResult")

\* the probe is answered only if check_oauth_token sends it
ProbeAnswersFor(s, ua) ==
    LET reqs == check_oauth_token(s, ua, NoCallback, PyNone,
                                  TransportFailure, TransportFailure).requests
    IN IF reqs # <<>> /\ IsProbeRequest(reqs[1]) THEN ProbeAnswers ELSE {NoAnswer}

\* the refresh is answered only if check_oauth_token sends it
RefreshAnswersFor(s, ua, probeAnswer) ==
    LET reqs == check_oauth_token(s, ua, NoCallback, PyNone,
                                  probeAnswer, TransportFailure).requests
    IN IF \E i \in DOMAIN reqs : IsRefreshRequest(reqs[i])
       THEN TokenAnswers ELSE {NoAnswer}

\* the answers of set A if the request is sent (All is every answer to it)
AnswersAmong(A, All) == IF All = {NoAnswer} THEN All ELSE A

\* check_oauth_token(persist_session_fct, username) called on the instance,
\* with the arguments and the answers drawn from the given sets
CheckOauthTokenWith(Args, Probes, Tokens) ==
    /\ constructed
    /\ \E pa \in Args :
       \E probeAnswer \in AnswersAmong(Probes, ProbeAnswersFor(session, user_agent)) :
       \E refreshAnswer \in
              AnswersAmong(Tokens, RefreshAnswersFor(session, user_agent, probeAnswer)) :
          LET out == check_oauth_token(session, user_agent, pa[1], pa[2],
                                       probeAnswer, refreshAnswer)
          IN /\ session' = out.session
             /\ last' = Observe("check_oauth_token", session, last.pending,
                                [NoArgs EXCEPT !.cb = pa[1], !.username = pa[2]],
                                [NoAnswers EXCEPT !.probe = probeAnswer,
                                                  !.token = refreshAnswer], out)
             /\ UNCHANGED <<user_agent, constructed, account_cache, security_market_data_cache>>

\* check_oauth_token with every argument and answer of the model
CheckOauthToken == CheckOauthTokenWith(PersistArgs, ProbeAnswers, TokenAnswers)

\* login_internal(username, password, otp_answer, persist_session_fct)
\* called on the instance, with the arguments and the answers drawn from
\* the given sets
LoginInternalWith(Otps, Callbacks, Tokens) ==
    /\ constructed
    /\ \E otp \in Otps : \E cb \in Callbacks :
       \E answer \in Tokens :
          LET out == login_internal(session, user_agent, PyStr("user"), PyStr("pw"),
                                    otp, cb, SCOPE_READ_ONLY, answer)
          IN /\ session' = out.session
             /\ last' = Observe("login_internal", session, last.pending,
                                [NoArgs EXCEPT !.cb = cb, !.username = PyStr("user"),
                                               !.otp_answer = otp],
                                [NoAnswers EXCEPT !.token = answer], out)
             /\ UNCHANGED <<user_agent, constructed, account_cache, security_market_data_cache>>

\* login_internal with every argument and answer of the model
LoginInternal ==
    LoginInternalWith(OtpAnswers, {NoCallback, Callback(1), Callback(2)}, TokenAnswers)

\* the calls on a client that keeps the default user agent (the User-Agent
\* header is the only thing set_user_agent changes)
Next ==
    \/ Construct
    \/ StartSession
    \/ CheckOauthToken
    \/ LoginInternal

Spec == Init /\ [][Next]_vars

\* the same with the class attribute set at any time
SpecUserAgent == Init /\ [][Next \/ SetUserAgent]_vars

\* __init__ with any session, or none
ConstructAny == ConstructWith(PartialSessions)

\* start_session with any session, or none
StartSessionAny == StartSessionWith(PartialSessions)

\* the bootstrap calls alone, over sessions with absent fields
NextStart ==
    \/ ConstructAny
    \/ StartSessionAny

SpecStart == Init /\ [][NextStart]_vars

-----------------------------------------------------------------------------
(* What the last call did, in terms of its arguments, answers and requests *)

IsCheck == last.op = "check_oauth_token"
IsLogin == last.op = "login_internal"

MLR == "ManualLoginRequired"

\* the session's token pair
TokenPair(s) == <<s.access_token, s.refresh_token>>

\* the call sent a refresh-grant request
RefreshSent == \E i \in DOMAIN last.requests : IsRefreshRequest(last.requests[i])

\* the provider answered the probe of the last call
ProbeAnswered == last.answers.probe # NoAnswer

\* what search_security raised or returned inside the last call
ProbeOutcome == search_security(last.entry, user_agent, "XEQT", last.answers.probe)

\* the probe failed with a WSApiException whose response message is exactly
\* "Not Authorized."
ProbeNotAuthorized ==
    /\ ProbeAnswered
    /\ ProbeOutcome.exc = "WSApiException"
    /\ ProbeOutcome.payload.t = "dict"
    /\ HasKey(ProbeOutcome.payload, "message")
    /\ ProbeOutcome.payload.v["message"] = PyStr("Not Authorized.")

\* the token endpoint answered the last call with a decoded mapping
TokenAnswered == last.answers.token.t = "dict"

\* that answer carries both tokens
AnswerHasBoth ==
    /\ TokenAnswered
    /\ HasKey(last.answers.token, "access_token")
    /\ HasKey(last.answers.token, "refresh_token")

-----------------------------------------------------------------------------
\* C1: a check_oauth_token call that holds an access token, whose probe fails
\* with a WSApiException with response message exactly "Not Authorized.",
\* that holds a refresh token and whose refresh-grant is answered with both
\* access_token and refresh_token, returns without raising and leaves the
\* session with exactly those two values.
C1_RefreshStoresPair ==
    (/\ IsCheck
     /\ Truthy(last.entry.access_token)
     /\ ProbeNotAuthorized
     /\ Truthy(last.entry.refresh_token))
    => /\ RefreshSent
       /\ AnswerHasBoth =>
            /\ last.exc = "none"
            /\ session.access_token = last.answers.token.v["access_token"]
            /\ session.refresh_token = last.answers.token.v["refresh_token"]

C1_Witness ==
    /\ IsCheck
    /\ last.entry.access_token = PyStr("atok0")
    /\ last.entry.refresh_token = PyStr("rtok0")
    /\ ProbeNotAuthorized
    /\ AnswerHasBoth
    /\ last.exc = "none"
    /\ TokenPair(session) = <<AccessTok(1), RefreshTok(1)>>

\* C2: a check_oauth_token call on a session without refresh token sends no
\* refresh-grant request; without access token it raises ManualLoginRequired
\* after zero requests, and with an access token whose probe fails with
\* "Not Authorized." it raises ManualLoginRequired after the probe alone.
C2_NoRefreshTokenNoRefreshRequest ==
    (IsCheck /\ ~Truthy(last.entry.refresh_token))
    => /\ ~RefreshSent
       /\ ~Truthy(last.entry.access_token) =>
            last.exc = MLR /\ last.requests = <<>>
       /\ (Truthy(last.entry.access_token) /\ ProbeNotAuthorized) =>
            /\ last.exc = MLR
            /\ Len(last.requests) = 1
            /\ IsProbeRequest(last.requests[1])

C2_Witness ==
    /\ IsCheck
    /\ last.entry.refresh_token = PyNone
    /\ last.entry.access_token = PyStr("atok0")
    /\ ProbeNotAuthorized
    /\ last.exc = MLR
    /\ Len(last.requests) = 1

\* C3: a probe failure other than a WSApiException with response message
\* exactly "Not Authorized." leaves check_oauth_token as raised by the probe;
\* no refresh-grant request is sent and both tokens are unchanged, even with
\* a refresh token present.
C3_OtherProbeFailurePropagates ==
    (/\ IsCheck
     /\ ProbeAnswered
     /\ ProbeOutcome.exc # "none"
     /\ ~ProbeNotAuthorized)
    => /\ last.exc = ProbeOutcome.exc
       /\ last.payload = ProbeOutcome.payload
       /\ last.message = ProbeOutcome.message
       /\ ~RefreshSent
       /\ TokenPair(session) = TokenPair(last.entry)

C3_Witness ==
    /\ IsCheck
    /\ Truthy(last.entry.refresh_token)
    /\ last.answers.probe = PyDict("message" :> PyStr("Not authorized"))
    /\ last.exc = "WSApiException"
    /\ last.payload = last.answers.probe
    /\ Len(last.requests) = 1

\* C4: a check_oauth_token call sends a refresh-grant request only if the
\* session had no access token at entry or the probe failed with the expiry
\* signal; when the probe succeeds the probe is the only request, both
\* tokens are unchanged and the persistence callback is not invoked.
C4_RefreshOnlyWhenNeeded ==
    IsCheck
    => /\ RefreshSent => (~Truthy(last.entry.access_token) \/ ProbeNotAuthorized)
       /\ (ProbeAnswered /\ ProbeOutcome.exc = "none") =>
            /\ last.exc = "none"
            /\ Len(last.requests) = 1
            /\ IsProbeRequest(last.requests[1])
            /\ TokenPair(session) = TokenPair(last.entry)
            /\ last.persisted = <<>>

C4_Witness ==
    /\ IsCheck
    /\ ProbeAnswered
    /\ ProbeOutcome.exc = "none"
    /\ Truthy(last.entry.refresh_token)
    /\ last.args.cb.given
    /\ last.exc = "none"
    /\ last.persisted = <<>>

\* C5: when the refresh-grant answer lacks access_token or refresh_token,
\* check_oauth_token raises ManualLoginRequired whose message carries the
\* answer's error value (a generic invalid-response reason when it has
\* none), both tokens keep their values and the persistence callback is not
\* invoked.
C5_RejectedRefresh ==
    (IsCheck /\ TokenAnswered /\ ~AnswerHasBoth)
    => /\ last.exc = MLR
       /\ last.message =
            "OAuth token invalid and cannot be refreshed: "
            \o (IF HasKey(last.answers.token, "error")
                THEN last.answers.token.v["error"].v
                ELSE "Invalid response from API")
       /\ TokenPair(session) = TokenPair(last.entry)
       /\ last.persisted = <<>>

C5_Witness ==
    /\ IsCheck
    /\ last.answers.token = PyDict("error" :> PyStr("invalid_grant"))
    /\ last.args.cb.given
    /\ last.exc = MLR
    /\ last.message = "OAuth token invalid and cannot be refreshed: invalid_grant"

\* the session holds neither an access token nor a refresh token
NoTokens(s) == ~Truthy(s.access_token) /\ ~Truthy(s.refresh_token)

\* the indices of the probe requests of the last call
ProbeRequests == {i \in DOMAIN last.requests : IsProbeRequest(last.requests[i])}

\* the indices of the refresh-grant requests of the last call
RefreshRequests == {i \in DOMAIN last.requests : IsRefreshRequest(last.requests[i])}

\* C6 as stated: once check_oauth_token has raised ManualLoginRequired, every
\* later check_oauth_token call raises ManualLoginRequired until a
\* login_internal call succeeds.  Stated in its weakest reading, which
\* lets a later call be cut short by another error before it gets to raise
\* ManualLoginRequired: no later call returns normally.
C6_Original_ManualLoginLatched ==
    (IsCheck /\ last.pending_at_entry) => last.exc # "none"

\* C6 amended: a check_oauth_token call that raises ManualLoginRequired
\* leaves both tokens unchanged; while the session holds neither an access
\* token nor a refresh token every check_oauth_token call raises
\* ManualLoginRequired without sending a request and without changing the
\* session; and only login_internal or start_session ends that condition.
C6_TerminalWithoutTokens ==
    /\ (IsCheck /\ last.exc = MLR) => TokenPair(session) = TokenPair(last.entry)
    /\ (IsCheck /\ NoTokens(last.entry)) =>
            /\ last.exc = MLR
            /\ last.requests = <<>>
            /\ session = last.entry
    /\ (NoTokens(last.entry) /\ ~NoTokens(session)) =>
            last.op \in {"login_internal", "start_session", "__init__"}

C6_Witness ==
    /\ IsCheck
    /\ last.pending_at_entry
    /\ NoTokens(last.entry)
    /\ last.exc = MLR
    /\ last.requests = <<>>

\* C7 as stated: after a probe that failed with the expiry signal and a
\* successful refresh-grant, the probe is retried exactly once with the new
\* access token before the call returns, and at most one refresh-grant
\* request is sent per call.
C7_Original_RetryOnce ==
    /\ (IsCheck /\ ProbeNotAuthorized /\ AnswerHasBoth /\ last.exc = "none") =>
            /\ Cardinality(ProbeRequests) = 2
            /\ LET r == last.requests[Len(last.requests)]
               IN /\ IsProbeRequest(r)
                  /\ "Authorization" \in DOMAIN r.headers
                  /\ r.headers["Authorization"]
                       = "Bearer " \o py_str(last.answers.token.v["access_token"])
    /\ IsCheck => Cardinality(RefreshRequests) <= 1

\* C7 amended: check_oauth_token realises probe then refresh, without a
\* retry: after a probe that failed with the expiry signal and a successful
\* refresh-grant the call returns having sent exactly the probe followed by
\* the refresh-grant (the probe is not sent again), and every call sends at
\* most one probe and at most one refresh-grant request.
C7_ProbeThenRefreshNoRetry ==
    /\ (IsCheck /\ ProbeNotAuthorized /\ AnswerHasBoth /\ last.exc = "none") =>
            /\ Len(last.requests) = 2
            /\ IsProbeRequest(last.requests[1])
            /\ IsRefreshRequest(last.requests[2])
    /\ IsCheck =>
            /\ Cardinality(ProbeRequests) <= 1
            /\ Cardinality(RefreshRequests) <= 1

C7_Witness ==
    /\ IsCheck
    /\ ProbeNotAuthorized
    /\ AnswerHasBoth
    /\ last.exc = "none"
    /\ session.access_token = AccessTok(2)
    /\ Len(last.requests) = 2

\* the token endpoint answered the last login with error "invalid_grant"
AnswerInvalidGrant ==
    /\ TokenAnswered
    /\ HasKey(last.answers.token, "error")
    /\ last.answers.token.v["error"] = PyStr("invalid_grant")

\* C8: when the token endpoint answers login_internal with error
\* "invalid_grant", OTPRequiredException is raised if no otp_answer was
\* passed (None) and LoginFailedException if one was passed.
C8_InvalidGrant ==
    (IsLogin /\ AnswerInvalidGrant)
    => /\ last.args.otp_answer = PyNone => last.exc = "OTPRequiredException"
       /\ last.args.otp_answer # PyNone => last.exc = "LoginFailedException"

C8_Witness ==
    /\ IsLogin
    /\ AnswerInvalidGrant
    /\ last.args.otp_answer = PyStr("123456")
    /\ last.exc = "LoginFailedException"

\* C9 as stated: every error answer to login_internal other than the
\* OTP-required case raises LoginFailedException carrying the raw answer,
\* and whenever login_internal raises, both tokens are unchanged and the
\* persistence callback is not invoked.
C9_Original_LoginFailureAtomic ==
    IsLogin
    => /\ (/\ TokenAnswered
           /\ HasKey(last.answers.token, "error")
           /\ ~(AnswerInvalidGrant /\ last.args.otp_answer = PyNone)) =>
                /\ last.exc = "LoginFailedException"
                /\ last.payload = last.answers.token
       /\ last.exc # "none" =>
                /\ TokenPair(session) = TokenPair(last.entry)
                /\ last.persisted = <<>>

\* the text json.dumps produces for the session when its two tokens are
\* those of the token endpoint's answer
SerializedWithAnswerTokens ==
    "{\"client_id\": " \o json_dumps(session.client_id)
    \o ", \"access_token\": " \o json_dumps(last.answers.token.v["access_token"])
    \o ", \"refresh_token\": " \o json_dumps(last.answers.token.v["refresh_token"])
    \o ", \"session_id\": " \o json_dumps(session.session_id)
    \o ", \"wssdi\": " \o json_dumps(session.wssdi)
    \o ", \"token_info\": " \o json_dumps(session.token_info) \o "}"

\* C10: when login_internal returns, and when check_oauth_token returns
\* after a refresh, the session holds the answer's access_token and
\* refresh_token; a supplied persistence callback is invoked exactly once,
\* its first argument is the serialized session with the new tokens in it,
\* and it gets the username as second argument exactly when it declares two
\* parameters; no callback, no invocation.
C10_StoreThenPersist ==
    ((IsLogin \/ (IsCheck /\ RefreshSent)) /\ last.exc = "none")
    => /\ AnswerHasBoth
       /\ session.access_token = last.answers.token.v["access_token"]
       /\ session.refresh_token = last.answers.token.v["refresh_token"]
       /\ ~last.args.cb.given => last.persisted = <<>>
       /\ last.args.cb.given =>
            /\ Len(last.persisted) = 1
            /\ last.persisted[1][1] = PyStr(SerializedWithAnswerTokens)
            /\ IF last.args.cb.params = 2
               THEN last.persisted[1] = <<PyStr(SerializedWithAnswerTokens), last.args.username>>
               ELSE Len(last.persisted[1]) = 1

C10_Witness ==
    /\ IsLogin
    /\ last.exc = "none"
    /\ last.entry.access_token = PyStr("atok0")
    /\ last.args.cb = Callback(2)
    /\ last.persisted =
         << <<PyStr("{\"client_id\": \"cid0\", \"access_token\": \"atok1\", "
                    \o "\"refresh_token\": \"rtok1\", \"session_id\": \"sid0\", "
                    \o "\"wssdi\": \"dev0\", \"token_info\": null}"),
              PyStr("user")>> >>

-----------------------------------------------------------------------------
(* Bootstrap: claims about start_session.                                  *)

IsStart == last.op \in {"__init__", "start_session"}

\* the five fields start_session copies from a restored session
RestoredFields == {"client_id", "access_token", "refresh_token", "session_id", "wssdi"}

\* the requests of the last call that fetch the login page
PageRequests == { i \in DOMAIN last.requests : last.requests[i].url = LOGIN_PAGE_URL }

\* the requests of the last call that fetch something else: the script
ScriptRequests == { i \in DOMAIN last.requests : last.requests[i].url # LOGIN_PAGE_URL }

\* C11: constructing a client with a restored session, or calling
\* start_session with one, sends no request, returns, and leaves the
\* client's client_id, access_token, refresh_token, session_id and wssdi
\* equal to the restored session's, whether or not it holds tokens; the same
\* call made again sends no request and leaves the session as it is.
C11_RestoreCopiesFiveFields ==
    (IsStart /\ last.args.sess # PyNone) =>
        /\ last.requests = <<>>
        /\ last.exc = "none"
        /\ \A f \in RestoredFields : session[f] = last.args.sess[f]
        /\ session.token_info = last.entry.token_info
        /\ LET again == start_session(session, user_agent, last.args.sess,
                                      NoAnswer, NoAnswer, PyNone)
           IN again.exc = "none" /\ again.requests = <<>> /\ again.session = session

\* a session without tokens was restored over a session that held both
C11_Witness ==
    /\ last.op = "start_session"
    /\ last.args.sess # PyNone
    /\ last.args.sess.access_token = PyNone
    /\ last.args.sess.refresh_token = PyNone
    /\ Truthy(last.entry.access_token)
    /\ Truthy(last.entry.refresh_token)
    /\ session.refresh_token = PyNone

\* C12: start_session without a restored session fetches the login page
\* exactly when wssdi or client_id is missing, fetches the application
\* script only when client_id is missing, keeps a wssdi and a client_id that
\* are already set, and sends nothing when both are set.
C12_ScrapeOnlyWhatIsMissing ==
    (IsStart /\ last.args.sess = PyNone) =>
        /\ (PageRequests # {}) <=>
               (~Truthy(last.entry.wssdi) \/ ~Truthy(last.entry.client_id))
        /\ (ScriptRequests # {}) => ~Truthy(last.entry.client_id)
        /\ Truthy(last.entry.wssdi) => session.wssdi = last.entry.wssdi
        /\ Truthy(last.entry.client_id) => session.client_id = last.entry.client_id
        /\ (Truthy(last.entry.wssdi) /\ Truthy(last.entry.client_id)) =>
               last.requests = <<>>

\* the device id was known and the client id was not: the page answered
\* with another device id, the script was fetched, and only the client id
\* was taken
C12_Witness ==
    /\ last.op = "start_session"
    /\ last.args.sess = PyNone
    /\ last.entry.wssdi = PyStr("dev0")
    /\ ~Truthy(last.entry.client_id)
    /\ last.answers.page # TransportFailure
    /\ last.answers.page.wssdi = PyStr("dev1")
    /\ ScriptRequests # {}
    /\ last.exc = "none"
    /\ session.wssdi = PyStr("dev0")
    /\ session.client_id = PyStr("cid1")

\* the login page was fetched and scanned
PageScanned == PageRequests # {} /\ last.answers.page # TransportFailure

\* the application script was fetched and searched
ScriptSearched == ScriptRequests # {} /\ last.answers.js # TransportFailure

\* C13: on the scrape path, a page that yields no wssdi when none is known
\* raises UnexpectedException naming the wssdi; otherwise a missing
\* client_id with no script URL in the page raises UnexpectedException
\* naming the script URL and no script is fetched; a fetched script without
\* a client id raises UnexpectedException naming the client id.
C13_ScrapeFailures ==
    (IsStart /\ last.args.sess = PyNone) =>
        /\ (PageScanned /\ ~Truthy(last.entry.wssdi)
                /\ last.answers.page.wssdi = PyNone) =>
               /\ last.exc = "UnexpectedException"
               /\ last.message = "Couldn't find wssdi in login page response headers."
               /\ ScriptRequests = {}
        /\ (PageScanned /\ ~Truthy(last.entry.client_id)
                /\ (Truthy(last.entry.wssdi) \/ last.answers.page.wssdi # PyNone)
                /\ last.answers.page.app_js_url = PyNone) =>
               /\ last.exc = "UnexpectedException"
               /\ last.message = "Couldn't find app JS URL in login page response body."
               /\ ScriptRequests = {}
        /\ (ScriptSearched /\ last.answers.js.client_id = PyNone) =>
               /\ last.exc = "UnexpectedException"
               /\ last.message = "Couldn't find clientId in app JS."

\* the script was fetched and held no client id
C13_Witness ==
    /\ IsStart
    /\ last.args.sess = PyNone
    /\ ScriptSearched
    /\ last.answers.js.client_id = PyNone
    /\ last.exc = "UnexpectedException"
    /\ last.message = "Couldn't find clientId in app JS."

-----------------------------------------------------------------------------
(* send_http_request on its own: the requests the callers of send_get and  *)
(* send_post build, over sessions with any field absent or empty.          *)

\* the headers get_token_info passes to send_get
token_info_headers == ("x-wealthsimple-client" :> "@wealthsimple/wealthsimple")

\* sessions whose session id, device id and access token are absent, empty
\* or set
HttpSessions ==
    { [WSAPISession EXCEPT !.client_id = PyStr("cid0"), !.session_id = i, !.wssdi = w,
                           !.access_token = a, !.refresh_token = r] :
        i \in {PyNone, PyStr(""), PyStr("sid0")},
        w \in {PyNone, PyStr(""), PyStr("dev0")},
        a \in {PyNone, PyStr(""), PyStr("atok0")},
        r \in {PyNone, PyStr("rtok0")} }

\* (url, headers) of the send_get calls of the client
GetCalls ==
    { <<LOGIN_PAGE_URL, <<>> >>,
      <<OAUTH_BASE_URL \o "/token/info", token_info_headers>> }

\* (url, data, headers) of the send_post calls of the client, and a call
\* with an empty body
PostCalls(s) ==
    { <<OAUTH_BASE_URL \o "/token", refresh_data(s), refresh_headers>>,
      <<OAUTH_BASE_URL \o "/token",
        login_data(s, PyStr("user"), PyStr("pw"), SCOPE_READ_ONLY),
        login_headers(PyStr("123456"))>>,
      <<GRAPHQL_URL,
        graphql_body("FetchSecuritySearchResult", PyDict("query" :> PyStr("XEQT"))),
        graphql_headers>>,
      <<GRAPHQL_URL, PyDict(<<>>), <<>> >> }

\* what is observed of one send_get or send_post call
ObserveRequest(op, r) == [op |-> op, entry |-> session, request |-> r]

\* a client holding any session, with or without a user agent
InitHttp ==
    /\ session \in HttpSessions
    /\ user_agent \in {PyNone, PyStr("agent/1.0")}
    /\ constructed = TRUE
    /\ account_cache = EmptyCache
    /\ security_market_data_cache = NoMarketDataCache
    /\ last = ObserveRequest("new", NoAnswer)

\* send_get(url, headers)
SendGet ==
    /\ \E c \in GetCalls :
          last' = ObserveRequest("send_get", send_get(session, user_agent, c[1], c[2]))
    /\ UNCHANGED <<session, user_agent, constructed, account_cache, security_market_data_cache>>

\* send_post(url, data, headers)
SendPost ==
    /\ \E c \in PostCalls(session) :
          last' = ObserveRequest("send_post",
                                 send_post(session, user_agent, c[1], c[2], c[3]))
    /\ UNCHANGED <<session, user_agent, constructed, account_cache, security_market_data_cache>>

NextHttp ==
    \/ SendGet
    \/ SendPost

SpecHttp == InitHttp /\ [][NextHttp]_vars

IsSend == last.op \in {"send_get", "send_post"}

\* header name is present on the last request with value v
HeaderIs(name, v) ==
    name \in DOMAIN last.request.headers /\ last.request.headers[name] = v

\* header name is absent from the last request
HeaderAbsent(name) == name \notin DOMAIN last.request.headers

\* C14: a request carries "Authorization: Bearer <access_token>" when the
\* session holds an access token and the body is not a refresh grant, and no
\* Authorization header when the body is a refresh grant or no token is
\* held; x-ws-session-id and x-ws-device-id carry the session's values
\* exactly when these are set; Content-Type is set exactly on POST.
C14_RequestHeaders ==
    IsSend =>
        /\ IF Truthy(last.entry.access_token) /\ ~IsRefreshRequest(last.request)
           THEN HeaderIs("Authorization", "Bearer " \o last.entry.access_token.v)
           ELSE HeaderAbsent("Authorization")
        /\ IF Truthy(last.entry.session_id)
           THEN HeaderIs("x-ws-session-id", last.entry.session_id.v)
           ELSE HeaderAbsent("x-ws-session-id")
        /\ IF Truthy(last.entry.wssdi)
           THEN HeaderIs("x-ws-device-id", last.entry.wssdi.v)
           ELSE HeaderAbsent("x-ws-device-id")
        /\ IF last.request.method = "POST"
           THEN HeaderIs("Content-Type", "application/json")
           ELSE HeaderAbsent("Content-Type")

\* a refresh grant was sent by a session that holds an access token
C14_Witness ==
    /\ last.op = "send_post"
    /\ IsRefreshRequest(last.request)
    /\ Truthy(last.entry.access_token)
    /\ HeaderAbsent("Authorization")
    /\ HeaderIs("x-ws-session-id", "sid0")

-----------------------------------------------------------------------------
(* do_graphql_query on its own: the queries the client sends, with and     *)
(* without filter and pagination, answered page by page.                   *)

\* the most requests one call is followed through
MaxPages == 3

\* an account or security as the provider describes it
Item(id, status) == PyDict(("id" :> PyStr(id)) @@ ("status" :> PyStr(status)))

\* an edge wrapper around a node
Edge(node) == PyDict(("node" :> node) @@ ("cursor" :> PyStr("e")))

\* a pageInfo object
PageInfo(hasNextPage, endCursor) ==
    PyDict(("hasNextPage" :> PyBool(hasNextPage)) @@ ("endCursor" :> endCursor))

\* the connection objects of the provider: edges with or without pageInfo
Connections ==
    { PyDict("edges" :> PyList(<<Edge(Item("a", "open"))>>)),
      PyDict(("edges" :> PyList(<<Edge(Item("b", "closed")), Edge(Item("c", "open"))>>))
             @@ ("pageInfo" :> PageInfo(FALSE, PyStr("C1")))),
      PyDict(("edges" :> PyList(<<Edge(Item("a", "open"))>>))
             @@ ("pageInfo" :> PageInfo(TRUE, PyStr("C1")))),
      PyDict(("edges" :> PyList(<<Edge(Item("b", "closed")), Edge(Item("c", "open"))>>))
             @@ ("pageInfo" :> PageInfo(TRUE, PyStr("C2")))),
      PyDict(("edges" :> PyList(<<>>)) @@ ("pageInfo" :> PageInfo(TRUE, PyNone))),
      PyDict("edges" :> PyList(<<Edge(PyNone)>>)),
      PyDict("edges" :> PyList(<<PyDict("cursor" :> PyStr("e"))>>)),
      PyDict("edges" :> PyNone) }

\* decoded answers to a query for identity.accounts.edges
AccountsAnswers ==
    {TransportFailure, PyDict(<<>>), PyDict("data" :> PyNone),
     PyDict("data" :> PyDict("identity" :> PyNone)),
     PyDict("data" :> PyDict("identity" :> PyDict(<<>>))),
     PyDict("data" :> PyDict("identity" :> PyDict("accounts" :> PyList(<<>>))))}
    \cup { PyDict("data" :> PyDict("identity" :> PyDict("accounts" :> c))) :
             c \in Connections }

\* decoded answers to a query for securitySearch.results
SearchAnswers ==
    { PyDict("message" :> PyStr("Server error")),
      PyDict("data" :> PyDict("securitySearch" :>
          PyDict("results" :> PyList(<<Item("a", "open"), Item("b", "closed")>>)))),
      PyDict("data" :> PyDict("securitySearch" :>
          PyDict(("results" :> PyList(<<Item("c", "open")>>))
                 @@ ("pageInfo" :> PageInfo(TRUE, PyStr("C1")))))),
      PyDict("data" :> PyDict("securitySearch" :> PyDict("results" :> PyDict(<<>>)))) }

\* decoded answers to a query for security
SecurityAnswers ==
    { PyDict("data" :> PyNone),
      PyDict("data" :> PyDict("security" :> PyNone)),
      PyDict("data" :> PyDict("security" :> PyList(<<>>))),
      PyDict("data" :> PyDict("security" :> PyDict(<<>>))),
      PyDict("data" :> PyDict("security" :> Item("a", "open"))),
      PyDict("data" :> PyDict("security" :>
          PyDict(("id" :> PyStr("a")) @@ ("pageInfo" :> PageInfo(TRUE, PyStr("C1")))))) }

\* the queries: name, variables, result path, expected type and the answers
\* the provider may give (lines 412-422, 165-170, 632-637)
Queries ==
    { [query_name |-> "FetchAllAccountFinancials",
       variables |-> PyDict("pageSize" :> PyInt(25)),
       path |-> <<"identity", "accounts", "edges">>, expect_type |-> "array",
       answers |-> AccountsAnswers],
      [query_name |-> "FetchSecuritySearchResult",
       variables |-> PyDict("query" :> PyStr("XEQT")),
       path |-> <<"securitySearch", "results">>, expect_type |-> "array",
       answers |-> SearchAnswers],
      [query_name |-> "FetchSecurityMarketData",
       variables |-> PyDict("id" :> PyStr("sec-s-1")),
       path |-> <<"security">>, expect_type |-> "object",
       answers |-> SecurityAnswers] }

\* do_graphql_query for query q with the answers given so far
run_query(s, ua, q, filter_fn, load_all_pages, answers) ==
    do_graphql_query_pages(s, ua, q.query_name, q.variables, q.path, q.expect_type,
                           filter_fn, load_all_pages, answers, 1)

RECURSIVE AnswerSeqs(_, _, _, _, _, _)
\* the sequences of answers the call receives: one answer per request it
\* sends, for calls that end within MaxPages requests
AnswerSeqs(s, ua, q, filter_fn, load_all_pages, prefix) ==
    IF run_query(s, ua, q, filter_fn, load_all_pages, prefix).exc # NeedAnswer
    THEN {prefix}
    ELSE IF Len(prefix) >= MaxPages THEN {}
    ELSE UNION { AnswerSeqs(s, ua, q, filter_fn, load_all_pages, Append(prefix, a)) :
                   a \in q.answers }

\* what is observed of a do_graphql_query call
ObserveQuery(op, q, filter_fn, load_all_pages, answers, out) ==
    [op |-> op, entry |-> session, query |-> q, filter_fn |-> filter_fn,
     load_all_pages |-> load_all_pages, answers |-> answers,
     exc |-> out.exc, data |-> out.data, payload |-> out.payload,
     message |-> out.message, requests |-> out.requests]

\* a client restored from a persisted session, with or without access token
InitGraphql ==
    /\ session \in { s \in RestoredSessions : s.refresh_token # PyNone }
    /\ user_agent = PyNone
    /\ constructed = TRUE
    /\ account_cache = EmptyCache
    /\ security_market_data_cache = NoMarketDataCache
    /\ last = ObserveQuery("new", PyNone, NoFilter, FALSE, <<>>,
                           QueryOutcome("none", PyNone, PyNone, "", <<>>))

\* do_graphql_query(query_name, variables, data_response_path, expect_type,
\* filter_fn, load_all_pages=...) called on the instance
DoGraphqlQuery ==
    /\ \E q \in Queries : \E filter_fn \in {NoFilter, StatusOpen} :
       \E load_all_pages \in BOOLEAN :
       \E answers \in AnswerSeqs(session, user_agent, q, filter_fn, load_all_pages, <<>>) :
          last' = ObserveQuery("do_graphql_query", q, filter_fn, load_all_pages, answers,
                               run_query(session, user_agent, q, filter_fn,
                                         load_all_pages, answers))
    /\ UNCHANGED <<session, user_agent, constructed, account_cache, security_market_data_cache>>

NextGraphql == DoGraphqlQuery

SpecGraphql == InitGraphql /\ [][NextGraphql]_vars

-----------------------------------------------------------------------------
(* Claims about do_graphql_query, stated on the answers as the provider    *)
(* wrote them.                                                             *)

IsQuery == last.op = "do_graphql_query"

\* no value at this place of the answer
Missing == [t |-> "missing"]

RECURSIVE PathValue(_, _, _)
\* the value at path[i..] below x, or Missing
PathValue(x, path, i) ==
    IF i > Len(path) THEN x
    ELSE IF x.t = "dict" /\ path[i] \in DOMAIN x.v
    THEN PathValue(x.v[path[i]], path, i + 1)
    ELSE Missing

\* the value at the result path of query q in answer a, or Missing
ResultValue(a, q) ==
    IF a.t = "dict" /\ "data" \in DOMAIN a.v
    THEN PathValue(a.v["data"], q.path, 1) ELSE Missing

\* the result path of q ends in edges
EdgesPath(q) == q.path[Len(q.path)] = "edges"

\* answer a holds, at the result path of q, a list (of edges with a node)
IsPage(a, q) ==
    LET v == ResultValue(a, q)
    IN /\ v.t = "list"
       /\ EdgesPath(q) =>
              \A i \in DOMAIN v.v : v.v[i].t = "dict" /\ "node" \in DOMAIN v.v[i].v

\* the items of page a: the nodes of its edges, or the elements of its list
ItemsOf(a, q) ==
    LET v == ResultValue(a, q)
    IN IF EdgesPath(q) THEN [i \in DOMAIN v.v |-> v.v[i].v["node"]] ELSE v.v

\* the pageInfo next to the result of q in answer a, or Missing
PageInfoOf(a, q) ==
    IF a.t = "dict" /\ "data" \in DOMAIN a.v
    THEN PathValue(a.v["data"],
                   SubSeq(q.path, 1, Len(q.path) - 1) \o <<"pageInfo">>, 1)
    ELSE Missing

\* the page info of a says there is a next page
HasNextPage(a, q) ==
    LET pi == PageInfoOf(a, q)
    IN pi.t = "dict" /\ "hasNextPage" \in DOMAIN pi.v /\ pi.v["hasNextPage"] = PyBool(TRUE)

\* the endCursor of the page info of a, or Missing
EndCursorOf(a, q) == PathValue(PageInfoOf(a, q), <<"endCursor">>, 1)

\* the items the filter accepts, in order
Accepted(items, filter_fn) ==
    LET ok(x) == x.t = "dict" /\ "status" \in DOMAIN x.v /\ x.v["status"] = PyStr("open")
    IN IF filter_fn.given THEN SelectSeq(items, ok) ELSE items

RECURSIVE ConcatPages(_, _, _, _)
\* the accepted items of pages k, k+1, ... of the last call, page by page
ConcatPages(answers, q, filter_fn, k) ==
    IF k > Len(answers) THEN <<>>
    ELSE Accepted(ItemsOf(answers[k], q), filter_fn)
         \o ConcatPages(answers, q, filter_fn, k + 1)

\* the variables of the i-th request of the last call
RequestVariables(i) == last.requests[i].json.v["variables"]

\* C15: with load_all_pages and no filter, when the first answer is a page
\* whose page info has hasNextPage true and a cursor c, and the second is a
\* page without a next page, exactly two requests are sent, the first
\* without cursor variable and the second with variables.cursor = c, and
\* the call returns the items of the first page followed by those of the
\* second.
C15_TwoPages ==
    (/\ IsQuery /\ last.load_all_pages /\ ~last.filter_fn.given
     /\ Len(last.answers) >= 2
     /\ IsPage(last.answers[1], last.query)
     /\ HasNextPage(last.answers[1], last.query)
     /\ EndCursorOf(last.answers[1], last.query) \in {PyStr("C1"), PyStr("C2")}
     /\ IsPage(last.answers[2], last.query)
     /\ ~HasNextPage(last.answers[2], last.query)) =>
        /\ last.exc = "none"
        /\ Len(last.answers) = 2
        /\ Len(last.requests) = 2
        /\ "cursor" \notin DOMAIN RequestVariables(1).v
        /\ RequestVariables(1) = last.query.variables
        /\ RequestVariables(2) =
               PyDict(("cursor" :> EndCursorOf(last.answers[1], last.query))
                      @@ last.query.variables.v)
        /\ last.data = PyList(ItemsOf(last.answers[1], last.query)
                              \o ItemsOf(last.answers[2], last.query))

\* page 1 (one account, cursor C1) then page 2 (two accounts, no next page)
C15_Witness ==
    /\ IsQuery /\ last.load_all_pages /\ ~last.filter_fn.given
    /\ Len(last.answers) = 2
    /\ EndCursorOf(last.answers[1], last.query) = PyStr("C1")
    /\ PageInfoOf(last.answers[2], last.query) = PageInfo(FALSE, PyStr("C1"))
    /\ last.data = PyList(<<Item("a", "open"), Item("b", "closed"), Item("c", "open")>>)

\* C16: a successful call whose result path ends in edges returns, without
\* filter, exactly the node of every edge of every page in edge and page
\* order; with a filter every returned element is still the node of an edge
\* of a page, never an edge wrapper.
C16_EdgesYieldNodes ==
    (IsQuery /\ last.exc = "none" /\ EdgesPath(last.query)) =>
        /\ \A k \in DOMAIN last.answers : IsPage(last.answers[k], last.query)
        /\ ~last.filter_fn.given =>
               last.data = PyList(ConcatPages(last.answers, last.query, NoFilter, 1))
        /\ \A i \in DOMAIN last.data.v :
               \E k \in DOMAIN last.answers :
                   LET nodes == ItemsOf(last.answers[k], last.query)
                       edges == ResultValue(last.answers[k], last.query).v
                   IN /\ \E j \in DOMAIN nodes : nodes[j] = last.data.v[i]
                      /\ \A j \in DOMAIN edges : edges[j] # last.data.v[i]

\* three pages of edges were loaded and their five nodes returned
C16_Witness ==
    /\ IsQuery /\ last.exc = "none" /\ EdgesPath(last.query)
    /\ ~last.filter_fn.given
    /\ Len(last.answers) = 3
    /\ Len(last.data.v) = 5
    /\ last.data.v[1] = Item("b", "closed")

\* C17: a call with expect_type "object" and load_all_pages raises, and
\* sends no request after the first, whatever page info the answer carries;
\* when the answer holds the object the exception is UnexpectedException.
C17_ObjectNeverPaginates ==
    (IsQuery /\ last.query.expect_type = "object" /\ last.load_all_pages) =>
        /\ last.exc # "none"
        /\ Len(last.requests) = 1
        /\ (ResultValue(last.answers[1], last.query).t = "dict"
                /\ ~last.filter_fn.given) =>
               last.exc = "UnexpectedException"

\* the object carried a page info with a next page and a cursor
C17_Witness ==
    /\ IsQuery /\ last.query.expect_type = "object" /\ last.load_all_pages
    /\ ResultValue(last.answers[1], last.query).t = "dict"
    /\ PathValue(ResultValue(last.answers[1], last.query),
                 <<"pageInfo">>, 1) = PageInfo(TRUE, PyStr("C1"))
    /\ last.exc = "UnexpectedException"

\* the answer that ended the last call
LastAnswer == last.answers[Len(last.answers)]

\* answer a holds a value of the expected type at the result path of q
HasExpectedShape(a, q) ==
    \/ q.expect_type = "array" /\ ResultValue(a, q).t = "list"
    \/ q.expect_type = "object" /\ ResultValue(a, q).t = "dict"

\* C18 as stated: every decoded answer that does not hold the result path
\* with the expected shape makes the call raise WSApiException naming the
\* query and carrying the answer.
C18_Original_MissingPathIsApiError ==
    (IsQuery /\ LastAnswer # TransportFailure
        /\ ~HasExpectedShape(LastAnswer, last.query)) =>
        /\ last.exc = "WSApiException"
        /\ last.message = "GraphQL query failed: " \o last.query.query_name
        /\ last.payload = LastAnswer

\* the accepted items of the pages of the last call are what it returned
FilteredPerPage ==
    last.data = PyList(ConcatPages(last.answers, last.query, last.filter_fn, 1))

\* C19: with a filter and load_all_pages, a successful call returns the
\* concatenation in page order of each page's accepted items, no rejected
\* element is returned, and the requests are those of the same call without
\* filter: each continuation carries the cursor of the unfiltered page
\* before it.
C19_FilterPerPage ==
    (IsQuery /\ last.exc = "none" /\ last.filter_fn.given /\ last.load_all_pages) =>
        /\ FilteredPerPage
        /\ \A i \in DOMAIN last.data.v : last.data.v[i].v["status"] = PyStr("open")
        /\ Len(last.requests) = Len(last.answers)
        /\ \A k \in 1..(Len(last.answers) - 1) :
               RequestVariables(k + 1).v["cursor"] = EndCursorOf(last.answers[k], last.query)
        /\ last.requests =
               run_query(last.entry, user_agent, last.query, NoFilter, TRUE,
                         last.answers).requests

\* a page whose only open account is followed by a page with a closed and
\* an open one: the closed one is dropped and the cursor of page 1 followed
C19_Witness ==
    /\ IsQuery /\ last.exc = "none" /\ last.filter_fn.given /\ last.load_all_pages
    /\ Len(last.answers) = 2
    /\ ItemsOf(last.answers[2], last.query) = <<Item("b", "closed"), Item("c", "open")>>
    /\ last.data = PyList(<<Item("a", "open"), Item("c", "open")>>)
    /\ RequestVariables(2).v["cursor"] = PyStr("C1")

\* page a lets the call go on: its page info has a next page and a cursor
\* that is neither null nor empty
HasNextCursor(a, q) ==
    /\ IsPage(a, q)
    /\ HasNextPage(a, q)
    /\ EndCursorOf(a, q) # Missing
    /\ Truthy(EndCursorOf(a, q))

\* the i-th request of the last call is its first with variables.cursor set
RepeatsFirstRequestWithCursor(i, cursor) ==
    last.requests[i] =
        [last.requests[1] EXCEPT !.json =
            PyDict(("variables" :> PyDict(("cursor" :> cursor) @@ last.query.variables.v))
                   @@ last.requests[1].json.v)]

\* C32: a call with load_all_pages sends one request per answer received;
\* every page but the last carries a next-page cursor and the request after
\* it is the first request with variables.cursor set to that cursor (same
\* query name, same document, same headers); a call that returns ends at
\* the first page without a next-page cursor.
C32_OneRequestPerPage ==
    (IsQuery /\ last.load_all_pages) =>
        /\ Len(last.requests) = Len(last.answers)
        /\ RequestVariables(1) = last.query.variables
        /\ \A k \in 1..(Len(last.answers) - 1) :
               /\ HasNextCursor(last.answers[k], last.query)
               /\ RepeatsFirstRequestWithCursor(k + 1, EndCursorOf(last.answers[k], last.query))
        /\ last.exc = "none" => ~HasNextCursor(LastAnswer, last.query)

\* three pages were followed through the cursors C1 and C2
C32_Witness ==
    /\ IsQuery /\ last.load_all_pages /\ last.exc = "none"
    /\ Len(last.requests) = 3
    /\ RequestVariables(2).v["cursor"] = PyStr("C1")
    /\ RequestVariables(3).v["cursor"] = PyStr("C2")
    /\ ~HasNextPage(last.answers[3], last.query)

\* C33 as stated: a call for an object with a filter supplied, answered
\* with a mapping at the result path, returns that mapping unchanged.
C33_Original_FilterOnlyOnSequences ==
    (/\ IsQuery /\ last.query.expect_type = "object" /\ last.filter_fn.given
     /\ ~last.load_all_pages
     /\ LastAnswer # TransportFailure
     /\ ResultValue(LastAnswer, last.query).t = "dict") =>
        /\ last.exc = "none"
        /\ last.data = ResultValue(LastAnswer, last.query)

-----------------------------------------------------------------------------
(* The walk of the result path over answers with page info at more than    *)
(* one node of the path.                                                   *)

\* a node of the path with the members given and, unless info is Missing,
\* a pageInfo member
WithPageInfo(members, info) ==
    IF info = Missing THEN PyDict(members) ELSE PyDict(("pageInfo" :> info) @@ members)

\* what a node may carry as pageInfo, for the cursors next and stale
PageInfos(next, stale) ==
    { Missing, PyNone,
      PageInfo(TRUE, PyStr(next)), PageInfo(FALSE, PyStr(stale)), PageInfo(FALSE, PyNone),
      PageInfo(TRUE, PyNone), PageInfo(TRUE, PyStr("")),
      PyDict("hasNextPage" :> PyBool(TRUE)) }

\* first pages of the account listing: page info at identity, at accounts,
\* at both or at neither
WalkFirstAnswers ==
    { PyDict("data" :> PyDict("identity" :>
          WithPageInfo("accounts" :>
              WithPageInfo("edges" :> PyList(<<Edge(Item("a", "open"))>>), inner),
              outer))) :
        outer \in PageInfos("O1", "O2"), inner \in PageInfos("I1", "I2") }

\* the answers to a continuation: no answer, or a last page
WalkLaterAnswers ==
    { TransportFailure,
      PyDict("data" :> PyDict("identity" :> PyDict("accounts" :>
          PyDict("edges" :> PyList(<<Edge(Item("b", "closed"))>>))))) }

\* the account listing (lines 412-422)
WalkQuery ==
    [query_name |-> "FetchAllAccountFinancials",
     variables |-> PyDict("pageSize" :> PyInt(25)),
     path |-> <<"identity", "accounts", "edges">>, expect_type |-> "array",
     answers |-> WalkFirstAnswers]

\* the answers the call receives after the first: one if it sends a
\* continuation
WalkAnswerSeqs(s, ua, filter_fn, first) ==
    IF run_query(s, ua, WalkQuery, filter_fn, TRUE, <<first>>).exc = NeedAnswer
    THEN { <<first, a>> : a \in WalkLaterAnswers }
    ELSE { <<first>> }

\* a client restored from a persisted session
InitWalk ==
    /\ session \in { s \in RestoredSessions : s.refresh_token # PyNone /\ s.access_token # PyStr("") }
    /\ user_agent = PyNone
    /\ constructed = TRUE
    /\ account_cache = EmptyCache
    /\ security_market_data_cache = NoMarketDataCache
    /\ last = ObserveQuery("new", PyNone, NoFilter, FALSE, <<>>,
                           QueryOutcome("none", PyNone, PyNone, "", <<>>))

\* do_graphql_query for the account listing with load_all_pages=True
WalkPages ==
    /\ \E filter_fn \in {NoFilter, StatusOpen} :
       \E first \in WalkFirstAnswers :
       \E answers \in WalkAnswerSeqs(session, user_agent, filter_fn, first) :
          last' = ObserveQuery("do_graphql_query", WalkQuery, filter_fn, TRUE, answers,
                               run_query(session, user_agent, WalkQuery, filter_fn,
                                         TRUE, answers))
    /\ UNCHANGED <<session, user_agent, constructed, account_cache, security_market_data_cache>>

NextWalk == WalkPages

SpecWalk == InitWalk /\ [][NextWalk]_vars

\* the node of answer a at the i-th segment of the result path of q
NodeOnPath(a, q, i) == PathValue(a.v["data"], SubSeq(q.path, 1, i), 1)

\* the node has a pageInfo with hasNextPage true that carries an endCursor
OffersCursor(node) ==
    /\ node.t = "dict" /\ "pageInfo" \in DOMAIN node.v
    /\ node.v["pageInfo"].t = "dict"
    /\ "hasNextPage" \in DOMAIN node.v["pageInfo"].v
    /\ node.v["pageInfo"].v["hasNextPage"] = PyBool(TRUE)
    /\ "endCursor" \in DOMAIN node.v["pageInfo"].v

\* the endCursor of the last node on the path that offers one, or None
CursorOfPath(a, q) ==
    LET offering == { i \in DOMAIN q.path : OffersCursor(NodeOnPath(a, q, i)) }
    IN IF offering = {} THEN PyNone
       ELSE LET i == CHOOSE i \in offering : \A j \in offering : j <= i
            IN NodeOnPath(a, q, i).v["pageInfo"].v["endCursor"]

\* C34: the continuation carries the endCursor of the last node on the
\* path whose pageInfo has hasNextPage true and an endCursor; nodes with
\* hasNextPage false or without endCursor change nothing; when that cursor
\* is null or empty, or no node offers one, the call returns after the
\* first request.
C34_LastOfferedCursorWins ==
    (IsQuery /\ last.load_all_pages /\ last.query = WalkQuery) =>
        LET cursor == CursorOfPath(last.answers[1], last.query)
        IN IF cursor \in {PyNone, PyStr("")}
           THEN Len(last.requests) = 1 /\ last.exc = "none"
           ELSE /\ Len(last.requests) = 2
                /\ RequestVariables(2).v["cursor"] = cursor

\* identity offers the cursor O1 and accounts, later on the path, only a
\* pageInfo with hasNextPage false and the cursor I2: O1 is followed
C34_Witness ==
    /\ IsQuery /\ last.load_all_pages /\ last.query = WalkQuery
    /\ PathValue(last.answers[1], <<"data", "identity", "pageInfo">>, 1)
           = PageInfo(TRUE, PyStr("O1"))
    /\ PathValue(last.answers[1], <<"data", "identity", "accounts", "pageInfo">>, 1)
           = PageInfo(FALSE, PyStr("I2"))
    /\ Len(last.requests) = 2
    /\ RequestVariables(2).v["cursor"] = PyStr("O1")
    /\ last.exc = "none"

-----------------------------------------------------------------------------
(* WSAPISession.to_json and from_json on their own.                        *)

\* sessions to serialize: absent, empty and set fields, a token with a
\* quote and a backslash, and token_info absent, empty, flat and nested
JsonSessions ==
    { [client_id |-> c, access_token |-> a, refresh_token |-> r,
       session_id |-> PyStr("sid0"), wssdi |-> w, token_info |-> ti] :
        c \in {PyNone, PyStr("cid0")},
        a \in {PyNone, PyStr(""), PyStr("a\"b\\c")},
        r \in {PyNone, PyStr("rtok0")},
        w \in {PyNone, PyStr("dev0")},
        ti \in {PyNone, PyDict(<<>>), PyDict("sub" :> PyStr("u1")),
                PyDict(("identity" :> PyDict("id" :> PyStr("i1")))
                       @@ ("roles" :> PyList(<<PyStr("a b"), PyBool(TRUE)>>)))} }

\* orders in which the six fields may appear in a text: that of to_json,
\* its reverse, and two others
FieldOrders ==
    { SessionFields,
      <<"token_info", "wssdi", "session_id", "refresh_token", "access_token", "client_id">>,
      <<"wssdi", "client_id", "token_info", "access_token", "session_id", "refresh_token">>,
      <<"access_token", "token_info", "client_id", "refresh_token", "wssdi", "session_id">> }

\* the text of session s with its fields in order q
text_in_order(s, q) == "{" \o json_members(s, q, 1) \o "}"

\* texts that to_json does not write: fields left out, no spaces, spaces
\* added, a key that is no field, a value that is no object, a broken text
OtherTexts ==
    { "{}", "{\"access_token\":\"atok0\"}", " { \"wssdi\" : \"dev0\" } ",
      "{\"access_token\": \"x\", \"access_token\": \"y\"}",
      "{\"user\": \"u\"}", "null", "{\"wssdi\": \"dev0\"" }

\* what is observed of a to_json or from_json call
ObserveJson(op, source, order, text, out) ==
    [op |-> op, source |-> source, order |-> order, text |-> text,
     exc |-> out.exc, result |-> out.session]

\* a client holding any session
InitJson ==
    /\ session \in JsonSessions
    /\ user_agent = PyNone
    /\ constructed = TRUE
    /\ account_cache = EmptyCache
    /\ security_market_data_cache = NoMarketDataCache
    /\ last = ObserveJson("new", PyNone, <<>>, "", [exc |-> "none", session |-> PyNone])

\* session.to_json()
ToJson ==
    /\ last' = ObserveJson("to_json", session, SessionFields, to_json(session),
                           [exc |-> "none", session |-> PyNone])
    /\ UNCHANGED <<session, user_agent, constructed, account_cache, security_market_data_cache>>

\* WSAPISession.from_json(text) on the text of the session, written by
\* to_json or with its fields in another order
FromJson ==
    /\ \E q \in FieldOrders :
          LET text == text_in_order(session, q)
          IN last' = ObserveJson("from_json", session, q, text, from_json(text))
    /\ UNCHANGED <<session, user_agent, constructed, account_cache, security_market_data_cache>>

\* WSAPISession.from_json(text) on a text written by hand
FromJsonOther ==
    /\ \E text \in OtherTexts :
          last' = ObserveJson("from_json_other", PyNone, <<>>, text, from_json(text))
    /\ UNCHANGED <<session, user_agent, constructed, account_cache, security_market_data_cache>>

NextJson ==
    \/ ToJson
    \/ FromJson
    \/ FromJsonOther

SpecJson == InitJson /\ [][NextJson]_vars

\* C20: from_json(s.to_json()) equals s on all six fields, and from_json
\* gives the same session whatever the order of the fields in the text.
C20_JsonRoundTrip ==
    /\ last.op = "to_json" =>
           /\ last.text = text_in_order(last.source, SessionFields)
           /\ from_json(last.text) = [exc |-> "none", session |-> last.source]
    /\ last.op = "from_json" =>
           /\ last.exc = "none"
           /\ \A i \in DOMAIN SessionFields :
                  last.result[SessionFields[i]] = last.source[SessionFields[i]]
           /\ last.result = from_json(to_json(last.source)).session

\* a session with an escaped token and a nested token_info was read back
\* from a text that starts with token_info
C20_Witness ==
    /\ last.op = "from_json"
    /\ last.order[1] = "token_info"
    /\ last.source.access_token = PyStr("a\"b\\c")
    /\ last.source.token_info.t = "dict"
    /\ "roles" \in DOMAIN last.source.token_info.v
    /\ last.result = last.source

-----------------------------------------------------------------------------
(* formatters.py: format_account_description                               *)

\* _ACCOUNT_TYPE_DESCRIPTIONS
ACCOUNT_TYPE_DESCRIPTIONS ==
    ("SELF_DIRECTED_RRSP" :> "RRSP: self-directed")
    @@ ("MANAGED_RRSP" :> "RRSP: managed")
    @@ ("SELF_DIRECTED_SPOUSAL_RRSP" :> "RRSP: self-directed spousal")
    @@ ("SELF_DIRECTED_TFSA" :> "TFSA: self-directed")
    @@ ("MANAGED_TFSA" :> "TFSA: managed")
    @@ ("SELF_DIRECTED_FHSA" :> "FHSA: self-directed")
    @@ ("MANAGED_FHSA" :> "FHSA: managed")
    @@ ("SELF_DIRECTED_NON_REGISTERED" :> "Non-registered: self-directed")
    @@ ("SELF_DIRECTED_JOINT_NON_REGISTERED" :> "Non-registered: self-directed - joint")
    @@ ("SELF_DIRECTED_NON_REGISTERED_MARGIN" :> "Non-registered: self-directed margin")
    @@ ("MANAGED_JOINT" :> "Non-registered: managed - joint")
    @@ ("SELF_DIRECTED_CRYPTO" :> "Crypto")
    @@ ("SELF_DIRECTED_RRIF" :> "RRIF: self-directed")
    @@ ("SELF_DIRECTED_SPOUSAL_RRIF" :> "RRIF: self-directed spousal")
    @@ ("CREDIT_CARD" :> "Credit card")
    @@ ("SELF_DIRECTED_LIRA" :> "LIRA: self-directed")

\* the outcome of a formatter: the record as it was left, and the exception
\* raised if any
Formatted(exc, record) == [exc |-> exc, record |-> record]

\* the test of line 33 with the status left out: any in-house custodian
\* account gives the number
is_visible_custodian_any_status(ca) == ca.v["branch"] \in {PyStr("WS"), PyStr("TR")}

\* the test of line 33
is_visible_custodian(ca) ==
    ca.v["branch"] \in {PyStr("WS"), PyStr("TR")} /\ ca.v["status"] = PyStr("open")

RECURSIVE account_number(_, _, _)
\* lines 32-34: the for loop over custodianAccounts from the i-th on, with
\* number as assigned so far
account_number(cas, i, number) ==
    IF i > Len(cas) THEN [exc |-> "none", number |-> number]
    ELSE IF cas[i].t # "dict" THEN [exc |-> "TypeError", number |-> number]
    ELSE IF ~HasKey(cas[i], "branch") THEN [exc |-> "KeyError", number |-> number]
    ELSE IF cas[i].v["branch"] \in {PyStr("WS"), PyStr("TR")} /\ ~HasKey(cas[i], "status")
    THEN [exc |-> "KeyError", number |-> number]
    ELSE IF is_visible_custodian(cas[i])
    THEN IF HasKey(cas[i], "id")
         THEN account_number(cas, i + 1, cas[i].v["id"])
         ELSE [exc |-> "KeyError", number |-> number]
    ELSE account_number(cas, i + 1, number)

\* lines 49-57: the label of a MANAGED_NON_REGISTERED account
managed_non_registered_description(account) ==
    LET fs == account.v["accountFeatures"].v
        features == { fs[i].v["name"] : i \in DOMAIN fs }
    IN IF PyStr("PRIVATE_CREDIT") \in features
       THEN PyStr("Non-registered: managed - private credit")
       ELSE IF PyStr("PRIVATE_EQUITY") \in features
       THEN PyStr("Non-registered: managed - private equity")
       ELSE account.v["unifiedAccountType"]

\* lines 44-48 without the owner test: every cash account is Cash
cash_description_always_single(account) == PyStr("Cash")

\* lines 44-48: the label of a CASH account
cash_description(account) ==
    IF account.v["accountOwnerConfiguration"] = PyStr("MULTI_OWNER")
    THEN PyStr("Cash: joint") ELSE PyStr("Cash")

\* lines 40-62: the label by type of an account
type_description(account) ==
    LET account_type == account.v["unifiedAccountType"]
    IN IF account_type = PyStr("CASH") THEN cash_description(account)
       ELSE IF account_type = PyStr("MANAGED_NON_REGISTERED")
       THEN managed_non_registered_description(account)
       ELSE IF account_type.t = "str" /\ account_type.v \in DOMAIN ACCOUNT_TYPE_DESCRIPTIONS
       THEN PyStr(ACCOUNT_TYPE_DESCRIPTIONS[account_type.v])
       ELSE account_type

\* a key the lines 40-62 read is missing from the account
type_description_key_missing(account) ==
    \/ ~HasKey(account, "unifiedAccountType")
    \/ /\ account.v["unifiedAccountType"] = PyStr("CASH")
       /\ ~HasKey(account, "accountOwnerConfiguration")
    \/ /\ account.v["unifiedAccountType"] = PyStr("MANAGED_NON_REGISTERED")
       /\ ~HasKey(account, "accountFeatures")

\* lines 36-38 left out: the nickname is never used
has_nickname_never(account) == FALSE

\* the test of line 36: account.get("nickname")
has_nickname(account) == Truthy(GetOr(account, "nickname", PyNone))

\* format_account_description(account): account with number and
\* description set, as far as the function got
format_account_description(account) ==
    IF account.t # "dict" THEN Formatted("TypeError", account)
    ELSE IF ~HasKey(account, "id") THEN Formatted("KeyError", account)
    ELSE LET a1 == PyDict(("number" :> account.v["id"]) @@ account.v)
         IN IF ~HasKey(account, "custodianAccounts") THEN Formatted("KeyError", a1)
            ELSE IF account.v["custodianAccounts"].t # "list"
            THEN Formatted("TypeError", a1)
            ELSE LET n == account_number(account.v["custodianAccounts"].v, 1,
                                         account.v["id"])
                     a2 == PyDict(("number" :> n.number) @@ account.v)
                 IN IF n.exc # "none" THEN Formatted(n.exc, a2)
                    ELSE IF has_nickname(account)
                    THEN Formatted("none",
                             PyDict(("description" :> account.v["nickname"]) @@ a2.v))
                    ELSE IF type_description_key_missing(account)
                    THEN Formatted("KeyError", a2)
                    ELSE Formatted("none",
                             PyDict(("description" :> type_description(account)) @@ a2.v))

-----------------------------------------------------------------------------
(* format_account_description on its own.                                  *)

\* a custodian account
Custodian(id, branch, status) ==
    PyDict(("id" :> PyStr(id)) @@ ("branch" :> PyStr(branch)) @@ ("status" :> PyStr(status)))

\* custodian account lists: none, visible ones, closed and foreign ones
CustodianLists ==
    { <<>>,
      <<Custodian("c1", "WS", "open")>>,
      <<Custodian("c1", "WS", "open"), Custodian("c2", "TR", "open")>>,
      <<Custodian("c2", "TR", "open"), Custodian("c3", "WS", "closed")>>,
      <<Custodian("c3", "WS", "closed")>>,
      <<Custodian("c4", "XX", "open"), Custodian("c1", "WS", "open"),
        Custodian("c4", "XX", "open")>>,
      <<Custodian("c4", "XX", "open")>> }

\* the nickname member of an account: absent, null, empty or set
Nicknames == { <<>>, "nickname" :> PyNone, "nickname" :> PyStr(""),
               "nickname" :> PyStr("Rainy day") }

\* feature lists of an account
FeatureLists ==
    { <<>>, <<PyDict("name" :> PyStr("PRIVATE_CREDIT"))>>,
      <<PyDict("name" :> PyStr("PRIVATE_EQUITY"))>>,
      <<PyDict("name" :> PyStr("PRIVATE_EQUITY")), PyDict("name" :> PyStr("PRIVATE_CREDIT"))>> }

\* account types: the special cases, types of the table, a type not in it
AccountTypes ==
    {"CASH", "MANAGED_NON_REGISTERED", "SELF_DIRECTED_TFSA", "CREDIT_CARD", "RESP"}

\* accounts as the provider describes them
Accounts ==
    { PyDict(("id" :> PyStr("acc1")) @@ ("status" :> PyStr("open"))
             @@ ("unifiedAccountType" :> PyStr(ty))
             @@ ("accountOwnerConfiguration" :> PyStr(oc))
             @@ ("accountFeatures" :> PyList(fl))
             @@ ("custodianAccounts" :> PyList(cl)) @@ nick) :
        ty \in AccountTypes, oc \in {"SINGLE_OWNER", "MULTI_OWNER"},
        fl \in FeatureLists, cl \in CustodianLists, nick \in Nicknames }

\* a call of format_account_description and what it left
ObserveFormat(op, record, out) ==
    [op |-> op, record |-> record, exc |-> out.exc, result |-> out.record]

InitFormat ==
    /\ session = WSAPISession
    /\ user_agent = PyNone
    /\ constructed = TRUE
    /\ account_cache = EmptyCache
    /\ security_market_data_cache = NoMarketDataCache
    /\ last = ObserveFormat("new", PyNone, Formatted("none", PyNone))

\* format_account_description(account)
FormatAccount ==
    /\ \E account \in Accounts :
          last' = ObserveFormat("format_account_description", account,
                                format_account_description(account))
    /\ UNCHANGED <<session, user_agent, constructed, account_cache, security_market_data_cache>>

NextFormat == FormatAccount

SpecFormat == InitFormat /\ [][NextFormat]_vars

IsFormatAccount == last.op = "format_account_description"

\* the account has a non-empty nickname
Nicknamed(account) ==
    "nickname" \in DOMAIN account.v /\ account.v["nickname"].t = "str"
    /\ account.v["nickname"].v # ""

\* C25: an account with a non-empty nickname gets the nickname as its
\* description, whatever its type, owner configuration and features.
C25_NicknameWins ==
    (IsFormatAccount /\ Nicknamed(last.record)) =>
        /\ last.exc = "none"
        /\ last.result.v["description"] = last.record.v["nickname"]

\* a joint cash account with a nickname
C25_Witness ==
    /\ IsFormatAccount
    /\ Nicknamed(last.record)
    /\ last.record.v["unifiedAccountType"] = PyStr("CASH")
    /\ last.record.v["accountOwnerConfiguration"] = PyStr("MULTI_OWNER")
    /\ last.result.v["description"] = PyStr("Rainy day")

\* the places in the custodian list of the in-house accounts that are open
VisiblePlaces(account) ==
    LET cas == account.v["custodianAccounts"].v
    IN { i \in DOMAIN cas : /\ cas[i].v["branch"].v \in {"WS", "TR"}
                            /\ cas[i].v["status"].v = "open" }

\* C26: number is the account's own id when no custodian account has
\* branch WS or TR and status open, and otherwise the id of the last such
\* custodian account of the list.
C26_Number ==
    IsFormatAccount =>
        LET places == VisiblePlaces(last.record)
            cas == last.record.v["custodianAccounts"].v
        IN /\ last.exc = "none"
           /\ IF places = {}
              THEN last.result.v["number"] = last.record.v["id"]
              ELSE \E i \in places :
                      /\ \A j \in places : j <= i
                      /\ last.result.v["number"] = cas[i].v["id"]

\* two open in-house custodian accounts: the second gives the number
C26_Witness ==
    /\ IsFormatAccount
    /\ last.record.v["custodianAccounts"].v =
           <<Custodian("c1", "WS", "open"), Custodian("c2", "TR", "open")>>
    /\ last.result.v["number"] = PyStr("c2")

\* C27 as stated: every CASH account is labelled Cash, or Cash: joint when
\* its owner configuration is MULTI_OWNER.
C27_Original_CashLabel ==
    (IsFormatAccount /\ last.record.v["unifiedAccountType"] = PyStr("CASH")) =>
        last.result.v["description"] =
            IF last.record.v["accountOwnerConfiguration"] = PyStr("MULTI_OWNER")
            THEN PyStr("Cash: joint") ELSE PyStr("Cash")

\* C27: a CASH account without a non-empty nickname is labelled Cash, or
\* Cash: joint when its owner configuration is MULTI_OWNER; with a
\* non-empty nickname it is labelled with the nickname.
C27_CashLabelWithoutNickname ==
    (IsFormatAccount /\ last.record.v["unifiedAccountType"] = PyStr("CASH")) =>
        /\ last.exc = "none"
        /\ last.result.v["description"] =
               IF Nicknamed(last.record) THEN last.record.v["nickname"]
               ELSE IF last.record.v["accountOwnerConfiguration"] = PyStr("MULTI_OWNER")
               THEN PyStr("Cash: joint") ELSE PyStr("Cash")

\* a joint cash account whose nickname is the empty string
C27_Witness ==
    /\ IsFormatAccount
    /\ last.record.v["unifiedAccountType"] = PyStr("CASH")
    /\ last.record.v["accountOwnerConfiguration"] = PyStr("MULTI_OWNER")
    /\ "nickname" \in DOMAIN last.record.v
    /\ last.record.v["nickname"] = PyStr("")
    /\ last.result.v["description"] = PyStr("Cash: joint")

-----------------------------------------------------------------------------
(* get_token_info and get_accounts: the token info kept in the session and *)
(* the account cache of the instance.                                      *)

\* the outcome of a call that returns a value: the session and the account
\* cache it leaves, the exception or the value, the requests sent
CallOutcome(s, cache, exc, result, reqs) ==
    [session |-> s, cache |-> cache, exc |-> exc, result |-> result, requests |-> reqs]

\* get_token_info() sending the request of line 356 a second time when the
\* first attempt fails in transport
get_token_info_resends(s, ua, cache, answer) ==
    IF Truthy(s.token_info) THEN CallOutcome(s, cache, "none", s.token_info, <<>>)
    ELSE LET req == send_get(s, ua, OAUTH_BASE_URL \o "/token/info", token_info_headers)
         IN IF answer = NoAnswer THEN CallOutcome(s, cache, NeedAnswer, PyNone, <<>>)
            ELSE IF answer = TransportFailure
            THEN CallOutcome(s, cache, "CurlException", PyNone, <<req, req>>)
            ELSE CallOutcome([s EXCEPT !.token_info = answer], cache, "none", answer, <<req>>)

\* get_token_info(): answer answers the request of line 356 if it is sent
get_token_info(s, ua, cache, answer) ==
    IF Truthy(s.token_info) THEN CallOutcome(s, cache, "none", s.token_info, <<>>)
    ELSE LET req == send_get(s, ua, OAUTH_BASE_URL \o "/token/info", token_info_headers)
         IN IF answer = NoAnswer THEN CallOutcome(s, cache, NeedAnswer, PyNone, <<>>)
            ELSE IF answer = TransportFailure
            THEN CallOutcome(s, cache, "CurlException", PyNone, <<req>>)
            ELSE CallOutcome([s EXCEPT !.token_info = answer], cache, "none", answer, <<req>>)

\* line 408 with one slot for both views
cache_key_single(open_only) == "open"

\* line 408: cache_key = "open" if open_only else "all"
cache_key(open_only) == IF open_only THEN "open" ELSE "all"

RECURSIVE format_accounts(_, _)
\* lines 424-425: format_account_description on each account from the
\* i-th on, up to the first that raises
format_accounts(accounts, i) ==
    IF i > Len(accounts) THEN [exc |-> "none", data |-> accounts]
    ELSE LET f == format_account_description(accounts[i])
         IN IF f.exc # "none" THEN [exc |-> f.exc, data |-> accounts]
            ELSE format_accounts([accounts EXCEPT ![i] = f.record], i + 1)

\* get_accounts(open_only, use_cache): token answers the token-info request
\* and pages the requests of the query, as far as they are sent
get_accounts(s, ua, cache, open_only, use_cache, token, pages) ==
    LET \* lines 424-426: the accounts formatted, kept in the cache, returned
        formatted(t, q, f) ==
            IF f.exc # "none"
            THEN CallOutcome(t.session, cache, f.exc, PyNone, t.requests \o q.requests)
            ELSE CallOutcome(t.session,
                     PyDict((cache_key(open_only) :> PyList(f.data)) @@ cache.v),
                     "none", PyList(f.data), t.requests \o q.requests)
        \* lines 417-423: the accounts the query returned
        queried(t, q) ==
            IF q.exc # "none"
            THEN CallOutcome(t.session, cache, q.exc, PyNone, t.requests \o q.requests)
            ELSE formatted(t, q, format_accounts(q.data.v, 1))
        \* line 416: the token info get_token_info returned
        with_token_info(t) ==
            IF t.exc # "none" THEN t
            ELSE IF t.result.t # "dict"
            THEN CallOutcome(t.session, cache, "AttributeError", PyNone, t.requests)
            ELSE queried(t, do_graphql_query_pages(t.session, ua, "FetchAllAccountFinancials",
                              PyDict(("pageSize" :> PyInt(25))
                                     @@ ("identityId" :> GetOr(t.result, "identity_canonical_id", PyNone))),
                              <<"identity", "accounts", "edges">>, "array",
                              IF open_only THEN StatusOpen ELSE NoFilter, TRUE, pages, 1))
    IN IF use_cache /\ cache_key(open_only) \in DOMAIN cache.v
       THEN CallOutcome(s, cache, "none", cache.v[cache_key(open_only)], <<>>)
       ELSE with_token_info(get_token_info(s, ua, cache, token))

-----------------------------------------------------------------------------
(* A logged-in client listing its accounts, logging in again and           *)
(* refreshing its tokens.                                                  *)

\* the most pages one account listing is followed through
MaxAccountPages == 2

\* decoded answers of the token-info endpoint
TokenInfoAnswers ==
    {TransportFailure, PyDict(<<>>), PyDict("identity_canonical_id" :> PyStr("identity-1"))}

\* an account of the listing, with the members format_account_description reads
Account(id, status) ==
    PyDict(("id" :> PyStr(id)) @@ ("status" :> PyStr(status))
           @@ ("unifiedAccountType" :> PyStr("RESP"))
           @@ ("custodianAccounts" :> PyList(<<Custodian("c-" \o id, "WS", "open")>>)))

\* a page of the account listing
AccountsPage(nodes, pageInfo) ==
    PyDict("data" :> PyDict("identity" :> PyDict("accounts" :>
        PyDict(("edges" :> PyList([i \in DOMAIN nodes |-> Edge(nodes[i])]))
               @@ ("pageInfo" :> pageInfo)))))

\* decoded answers to the account listing: no answer, no data, a last page,
\* a page with a successor, a page with an account lacking its members
AccountPages ==
    { TransportFailure, PyDict("data" :> PyNone),
      AccountsPage(<<Account("a2", "closed"), Account("a3", "open")>>, PageInfo(FALSE, PyNone)),
      AccountsPage(<<Account("a1", "open")>>, PageInfo(TRUE, PyStr("C1"))),
      AccountsPage(<<Item("a4", "open")>>, PageInfo(FALSE, PyNone)) }

\* the token-info answers get_token_info receives: one if it sends the request
TokenInfoAnswersFor(s, ua) ==
    IF get_token_info(s, ua, EmptyCache, NoAnswer).exc = NeedAnswer
    THEN TokenInfoAnswers ELSE {NoAnswer}

\* the token-info answers get_accounts receives: one if it sends the request
AccountsTokenAnswers(s, ua, cache, open_only, use_cache) ==
    IF get_accounts(s, ua, cache, open_only, use_cache, NoAnswer, <<>>).exc = NeedAnswer
    THEN TokenInfoAnswersFor(s, ua) ELSE {NoAnswer}

RECURSIVE AccountsAnswerSeqs(_, _, _, _, _, _, _)
\* the page answers get_accounts receives: one per request of the query,
\* for calls that end within MaxAccountPages of them
AccountsAnswerSeqs(s, ua, cache, open_only, use_cache, token, prefix) ==
    IF get_accounts(s, ua, cache, open_only, use_cache, token, prefix).exc # NeedAnswer
    THEN {prefix}
    ELSE IF Len(prefix) >= MaxAccountPages THEN {}
    ELSE UNION { AccountsAnswerSeqs(s, ua, cache, open_only, use_cache, token, Append(prefix, a)) :
                   a \in AccountPages }

\* what is observed of a get_token_info or get_accounts call
ObserveAccounts(op, pending, args, answers, out) ==
    [op |-> op, entry |-> session, cache_at_entry |-> account_cache, args |-> args,
     answers |-> answers, exc |-> out.exc, result |-> out.result,
     requests |-> out.requests, pending |-> pending]

\* a client restored from a persisted session
InitAccounts ==
    /\ session = [WSAPISession EXCEPT !.client_id = PyStr("cid0"),
                                      !.session_id = PyStr("sid0"),
                                      !.wssdi = PyStr("dev0"),
                                      !.access_token = PyStr("atok0"),
                                      !.refresh_token = PyStr("rtok0")]
    /\ user_agent = PyNone
    /\ constructed = TRUE
    /\ account_cache = EmptyCache
    /\ security_market_data_cache = NoMarketDataCache
    /\ last = ObserveAccounts("new", FALSE, <<>>, <<>>,
                              CallOutcome(session, EmptyCache, "none", PyNone, <<>>))

\* get_token_info() called on the instance
GetTokenInfo ==
    /\ \E answer \in TokenInfoAnswersFor(session, user_agent) :
          LET out == get_token_info(session, user_agent, account_cache, answer)
          IN /\ session' = out.session
             /\ last' = ObserveAccounts("get_token_info", last.pending, <<>>, <<answer>>, out)
    /\ UNCHANGED <<user_agent, constructed, account_cache, security_market_data_cache>>

\* get_accounts(open_only, use_cache) called on the instance
GetAccounts ==
    /\ \E open_only \in BOOLEAN : \E use_cache \in BOOLEAN :
       \E token \in AccountsTokenAnswers(session, user_agent, account_cache, open_only, use_cache) :
       \E pages \in AccountsAnswerSeqs(session, user_agent, account_cache,
                                       open_only, use_cache, token, <<>>) :
          LET out == get_accounts(session, user_agent, account_cache,
                                  open_only, use_cache, token, pages)
          IN /\ session' = out.session
             /\ account_cache' = out.cache
             /\ last' = ObserveAccounts("get_accounts", last.pending, <<open_only, use_cache>>,
                                        <<token>> \o pages, out)
    /\ UNCHANGED <<user_agent, constructed, security_market_data_cache>>

\* login_internal on the instance: the token endpoint issues a pair or
\* rejects the credentials
LoginAgain ==
    LoginInternalWith({PyNone}, {NoCallback},
        { PyDict(("access_token" :> AccessTok(1)) @@ ("refresh_token" :> RefreshTok(1))),
          PyDict("error" :> PyStr("invalid_grant")) })

\* check_oauth_token on the instance: the probe passes or is refused, and
\* the refresh issues a pair or is rejected
RefreshTokens ==
    CheckOauthTokenWith({<<NoCallback, PyNone>>},
        { PyDict("data" :> PyDict("securitySearch" :> PyDict("results" :> PyList(<<>>)))),
          PyDict("message" :> PyStr("Not Authorized.")) },
        { PyDict(("access_token" :> AccessTok(1)) @@ ("refresh_token" :> RefreshTok(1))),
          PyDict("error" :> PyStr("invalid_grant")) })

NextAccounts ==
    \/ GetTokenInfo
    \/ GetAccounts
    \/ LoginAgain
    \/ RefreshTokens

SpecAccounts == InitAccounts /\ [][NextAccounts]_vars

-----------------------------------------------------------------------------
(* Claims about the token info and the account cache.                      *)

IsGetTokenInfo == last.op = "get_token_info"

IsGetAccounts == last.op = "get_accounts"

\* the request goes to the token-info endpoint
IsTokenInfoRequest(r) == r.url = OAUTH_BASE_URL \o "/token/info"

\* the call is a login or a token check with its refresh
IsLoginOrRefresh == last.op \in {"login_internal", "check_oauth_token"}

\* C21: once a token-info answer is stored in the session, every call of
\* get_token_info returns the stored value and sends no request, and
\* login_internal and check_oauth_token leave the stored value as it is.
C21_Original_TokenInfoFetchedOnce ==
    /\ (IsGetTokenInfo /\ last.entry.token_info # PyNone)
          => /\ last.requests = <<>>
             /\ last.exc = "none"
             /\ last.result = last.entry.token_info
    /\ IsLoginOrRefresh => session.token_info = last.entry.token_info

\* the view a get_accounts call asks for
ViewOf(open_only) == IF open_only THEN "open" ELSE "all"

\* the other view
OtherView(view) == IF view = "open" THEN "all" ELSE "open"

\* the slot of a view holds the same, or is as empty, in both caches
SameSlot(c1, c2, view) ==
    /\ (view \in DOMAIN c1.v) <=> (view \in DOMAIN c2.v)
    /\ view \in DOMAIN c1.v => c1.v[view] = c2.v[view]

\* the request is the account listing query
IsAccountsRequest(r) ==
    /\ r.url = GRAPHQL_URL
    /\ Get(r.json, "operationName") = PyStr("FetchAllAccountFinancials")

\* C22: get_accounts keeps one cache slot per view. With use_cache it sends
\* the listing query only if the slot of its own view is empty and otherwise
\* returns the content of the slot without a request; without use_cache it
\* always sends the query; a call that returns after a fetch puts what it
\* returns in the slot of its own view and leaves the other slot alone; a
\* call that fails leaves both slots as they were; login_internal and
\* check_oauth_token leave both slots as they were.
C22_CachePerView ==
    /\ IsGetAccounts =>
         LET view == ViewOf(last.args[1])
             use_cache == last.args[2]
             hit == use_cache /\ view \in DOMAIN last.cache_at_entry.v
             token_reqs == IF last.entry.token_info = PyNone \/ ~Truthy(last.entry.token_info)
                           THEN 1 ELSE 0
         IN /\ hit => /\ last.requests = <<>>
                      /\ last.exc = "none"
                      /\ last.result = last.cache_at_entry.v[view]
                      /\ account_cache = last.cache_at_entry
            /\ ~hit => /\ last.requests # <<>>
                       /\ \/ \E i \in DOMAIN last.requests : IsAccountsRequest(last.requests[i])
                          \/ /\ last.exc # "none"
                             /\ Len(last.requests) = token_reqs
                             /\ \A i \in DOMAIN last.requests :
                                   IsTokenInfoRequest(last.requests[i])
                       /\ last.exc = "none" =>
                             /\ view \in DOMAIN account_cache.v
                             /\ account_cache.v[view] = last.result
                             /\ SameSlot(account_cache, last.cache_at_entry, OtherView(view))
                       /\ last.exc # "none" => account_cache = last.cache_at_entry
    /\ IsLoginOrRefresh => account_cache = last.cache_at_entry
    /\ IsGetTokenInfo => account_cache = last.cache_at_entry

\* C22 witness: with the open-only slot filled and the other empty, a call
\* for all accounts with use_cache fetches and fills its own slot, and the
\* open-only slot keeps its content.
C22_Witness ==
    /\ IsGetAccounts
    /\ last.args = <<FALSE, TRUE>>
    /\ DOMAIN last.cache_at_entry.v = {"open"}
    /\ last.exc = "none"
    /\ Len(last.requests) >= 2
    /\ DOMAIN account_cache.v = {"open", "all"}
    /\ account_cache.v["open"] = last.cache_at_entry.v["open"]
    /\ account_cache.v["all"] # account_cache.v["open"]

-----------------------------------------------------------------------------
(* Two client instances of one process: each has its own session and       *)
(* account cache; user_agent is an attribute of the class.                 *)

\* the client instances
Instances == {1, 2}

\* the user agents a caller sets
UserAgents == {PyStr("agent/1.0"), PyStr("agent/2.0")}

\* what is observed of a call made through instance i: the sessions and the
\* class attribute at entry, and the requests sent
ObserveInstance(op, i, out) ==
    [op |-> op, instance |-> i, entry |-> session, user_agent_at_entry |-> user_agent,
     exc |-> out.exc, requests |-> out.requests]

\* two clients restored from the persisted sessions of two users
InitInstances ==
    /\ session = [i \in Instances |->
                    [WSAPISession EXCEPT !.client_id = PyStr("cid0"),
                                         !.session_id = PyStr("sid0"),
                                         !.wssdi = PyStr("dev0"),
                                         !.access_token = AccessTok(i),
                                         !.refresh_token = RefreshTok(i)]]
    /\ user_agent = PyNone
    /\ constructed = TRUE
    /\ account_cache = [i \in Instances |-> EmptyCache]
    /\ security_market_data_cache = [i \in Instances |-> NoMarketDataCache]
    /\ last = ObserveInstance("new", 0, CallOutcome(session, EmptyCache, "none", PyNone, <<>>))

\* set_user_agent(user_agent) called through instance i: the static method
\* assigns the attribute of the class WealthsimpleAPI
SetUserAgentOn(i) ==
    /\ \E ua \in UserAgents :
          /\ user_agent' = ua
          /\ last' = ObserveInstance("set_user_agent", i,
                                     CallOutcome(session[i], EmptyCache, "none", PyNone, <<>>))
    /\ UNCHANGED <<session, constructed, account_cache, security_market_data_cache>>

\* get_token_info() called on instance i
GetTokenInfoOn(i) ==
    /\ \E answer \in TokenInfoAnswersFor(session[i], user_agent) :
          LET out == get_token_info(session[i], user_agent, account_cache[i], answer)
          IN /\ session' = [session EXCEPT ![i] = out.session]
             /\ last' = ObserveInstance("get_token_info", i, out)
    /\ UNCHANGED <<user_agent, constructed, account_cache, security_market_data_cache>>

NextInstances ==
    \/ \E i \in Instances : SetUserAgentOn(i)
    \/ \E i \in Instances : GetTokenInfoOn(i)

SpecInstances == InitInstances /\ [][NextInstances]_vars

\* the request instance j sends for its token info, with the class
\* attribute holding ua
TokenInfoRequestOf(j, ua) ==
    send_get(session[j], ua, OAUTH_BASE_URL \o "/token/info", token_info_headers)

\* C23: a call made through one instance leaves the session of every other
\* instance as it was, and the request another instance sends next is the
\* one it would have sent before the call.
C23_Original_NoSharedState ==
    last.op # "new" =>
        \A j \in Instances \ {last.instance} :
           /\ session[j] = last.entry[j]
           /\ TokenInfoRequestOf(j, user_agent) = TokenInfoRequestOf(j, last.user_agent_at_entry)

-----------------------------------------------------------------------------
(* The lookups format_activity_description makes through the client.       *)

\* the answers a call receives, in the order of its requests: the k-th, if
\* the call got that far
AnswerAt(answers, k) == IF k <= Len(answers) THEN answers[k] ELSE NoAnswer

\* do_graphql_query for one object or list: the value or the exception, and
\* the request sent
lookup(s, ua, query_name, variables, path, expect_type, answer) ==
    LET returned(q) == [exc |-> q.exc, data |-> q.data, requests |-> <<q.request>>]
    IN IF answer = NoAnswer THEN [exc |-> NeedAnswer, data |-> PyNone, requests |-> <<>>]
       ELSE returned(do_graphql_query(s, ua, query_name, variables, path, expect_type, answer))

\* get_etf_details(funding_id) with a failure answered by None
get_etf_details_or_none(s, ua, funding_id, answer) ==
    LET or_none(q) == IF q.exc \in {"none", NeedAnswer} THEN q ELSE [q EXCEPT !.exc = "none"]
    IN or_none(lookup(s, ua, "FetchFundsTransfer", PyDict("id" :> funding_id),
                      <<"fundsTransfer">>, "object", answer))

\* get_etf_details(funding_id)
get_etf_details(s, ua, funding_id, answer) ==
    lookup(s, ua, "FetchFundsTransfer", PyDict("id" :> funding_id),
           <<"fundsTransfer">>, "object", answer)

\* get_transfer_details(transfer_id)
get_transfer_details(s, ua, transfer_id, answer) ==
    lookup(s, ua, "FetchInstitutionalTransfer", PyDict("id" :> transfer_id),
           <<"accountTransfer">>, "object", answer)

\* get_corporate_action_child_activities(activity_canonical_id)
get_corporate_action_child_activities(s, ua, activity_canonical_id, answer) ==
    lookup(s, ua, "FetchCorporateActionChildActivities",
           PyDict("activityCanonicalId" :> activity_canonical_id),
           <<"corporateActionChildActivities", "nodes">>, "array", answer)

\* set_security_market_data_cache(getter, setter) with callbacks that keep
\* the values in a dict: getter(id) is store.get(id), setter(id, value)
\* stores the value and returns it; either may be None
MarketDataCache(getter, setter, store) ==
    [getter |-> getter, setter |-> setter, store |-> store, returns |-> "value"]

\* the same with a setter of the caller that returns the value it stored
\* ("value"), nothing ("none") or its own copy of the value ("copy")
MarketDataCacheReturning(getter, setter, store, returns) ==
    [getter |-> getter, setter |-> setter, store |-> store, returns |-> returns]

\* what the caller's getter returns for security_id
cache_getter(md, security_id) == GetOr(md.store, security_id.v, PyNone)

\* what the caller's setter returns for (security_id, value)
cache_setter(md, security_id, value) ==
    CASE md.returns = "value" -> value
      [] md.returns = "none" -> PyNone
      [] OTHER -> PyDict("cached" :> value)

\* get_security_market_data with line 640 calling the setter but keeping
\* the fetched value
get_security_market_data_keeps_fetched(s, ua, md, security_id, use_cache, answer) ==
    LET cached == use_cache /\ md.getter /\ md.setter
        got == IF cached THEN <<<<"getter", security_id>>>> ELSE <<>>
        hit == cached /\ Truthy(cache_getter(md, security_id))
        fetched(q) ==
            IF q.exc # "none"
            THEN [exc |-> q.exc, data |-> PyNone, md |-> md, requests |-> q.requests,
                  calls |-> got]
            ELSE IF cached
            THEN [exc |-> "none", data |-> q.data, requests |-> q.requests,
                  md |-> [md EXCEPT !.store = PyDict((security_id.v :> q.data) @@ md.store.v)],
                  calls |-> Append(got, <<"setter", security_id, q.data>>)]
            ELSE [exc |-> "none", data |-> q.data, requests |-> q.requests,
                  md |-> md, calls |-> got]
    IN IF hit
       THEN [exc |-> "none", data |-> cache_getter(md, security_id), md |-> md,
             requests |-> <<>>, calls |-> got]
       ELSE fetched(lookup(s, ua, "FetchSecurityMarketData", PyDict("id" :> security_id),
                           <<"security">>, "object", answer))

\* get_security_market_data(security_id, use_cache): the value or the
\* exception, the cache of the caller afterwards, the requests sent and the
\* calls made to the caller's getter and setter
get_security_market_data(s, ua, md, security_id, use_cache, answer) ==
    LET \* lines 621-625: without both callbacks the cache is not used
        cached == use_cache /\ md.getter /\ md.setter
        \* line 628: the getter is called
        got == IF cached THEN <<<<"getter", security_id>>>> ELSE <<>>
        hit == cached /\ Truthy(cache_getter(md, security_id))
        \* lines 632-642: the value the query returned
        fetched(q) ==
            IF q.exc # "none"
            THEN [exc |-> q.exc, data |-> PyNone, md |-> md, requests |-> q.requests,
                  calls |-> got]
            ELSE IF cached
            THEN [exc |-> "none", data |-> cache_setter(md, security_id, q.data),
                  requests |-> q.requests,
                  md |-> [md EXCEPT !.store = PyDict((security_id.v :> q.data) @@ md.store.v)],
                  calls |-> Append(got, <<"setter", security_id, q.data>>)]
            ELSE [exc |-> "none", data |-> q.data, requests |-> q.requests,
                  md |-> md, calls |-> got]
    IN IF hit
       THEN [exc |-> "none", data |-> cache_getter(md, security_id), md |-> md,
             requests |-> <<>>, calls |-> got]
       ELSE fetched(lookup(s, ua, "FetchSecurityMarketData", PyDict("id" :> security_id),
                           <<"security">>, "object", answer))

\* the except clause of line 591: except WSApiException (CurlException and
\* the errors of the interpreter are no WSApiException)
symbol_lookup_absorbs(exc) == exc = "WSApiException"

\* the test of line 585: if self.security_market_data_cache_getter
symbol_lookup_enabled(md) == md.getter

\* security_id_to_symbol(security_id)
security_id_to_symbol(s, ua, md, security_id, answer) ==
    LET placeholder == PyStr("[" \o py_str(security_id) \o "]")
        \* line 589: the symbol of the stock
        symbol_of(m, stock) ==
            IF stock.t # "dict" THEN [m EXCEPT !.exc = "TypeError", !.data = PyNone]
            ELSE IF ~HasKey(stock, "primaryExchange") \/ ~HasKey(stock, "symbol")
            THEN [m EXCEPT !.exc = "KeyError", !.data = PyNone]
            ELSE [m EXCEPT !.data = PyStr(py_str(stock.v["primaryExchange"]) \o ":"
                                          \o py_str(stock.v["symbol"]))]
        \* lines 586-592: the market data looked up
        looked_up(m) ==
            IF m.exc = NeedAnswer THEN m
            ELSE IF m.exc # "none"
            THEN IF symbol_lookup_absorbs(m.exc)
                 THEN [exc |-> "none", data |-> placeholder, md |-> m.md, requests |-> m.requests]
                 ELSE m
            ELSE IF ~(m.data.t = "dict" /\ Truthy(Get(m.data, "stock")))
            THEN [m EXCEPT !.data = placeholder]
            ELSE symbol_of(m, m.data.v["stock"])
    IN IF ~symbol_lookup_enabled(md)
       THEN [exc |-> "none", data |-> placeholder, md |-> md, requests |-> <<>>]
       ELSE looked_up(get_security_market_data(s, ua, md, security_id, TRUE, answer))

-----------------------------------------------------------------------------
(* str methods and float as format_activity_description uses them.         *)

UpperChars == "ABCDEFGHIJKLMNOPQRSTUVWXYZ"

LowerChars == "abcdefghijklmnopqrstuvwxyz"

RECURSIVE char_map(_, _, _, _)
\* the character of alphabet to at the place c has in alphabet from, or c
char_map(c, from, to, i) ==
    IF i > Len(from) THEN c
    ELSE IF Char(from, i) = c THEN Char(to, i)
    ELSE char_map(c, from, to, i + 1)

RECURSIVE str_map(_, _, _, _)
\* s from the i-th character on with every character mapped
str_map(s, from, to, i) ==
    IF i > Len(s) THEN ""
    ELSE char_map(Char(s, i), from, to, 1) \o str_map(s, from, to, i + 1)

\* s.lower()
py_lower(s) == str_map(s, UpperChars, LowerChars, 1)

\* s.upper()
py_upper(s) == str_map(s, LowerChars, UpperChars, 1)

\* s.capitalize(): the first character upper case, the others lower case
py_capitalize(s) ==
    IF s = "" THEN ""
    ELSE py_upper(Char(s, 1)) \o py_lower(SubSeq(s, 2, Len(s)))

\* s.replace(old, new) for a single character old
py_replace(s, old, new) == str_map(s, old, new, 1)

\* s.rstrip()
py_rstrip(s) ==
    IF s # "" /\ Char(s, Len(s)) = " " THEN SubSeq(s, 1, Len(s) - 1) ELSE s

RECURSIVE decimals(_, _, _)
\* the digits after the point of r / d for 0 < r < d, at most n of them
decimals(r, d, n) ==
    IF r = 0 \/ n = 0 THEN ""
    ELSE ToString((r * 10) \div d) \o decimals((r * 10) % d, d, n - 1)

\* str(n / d) for a float n / d >= 0 with a short decimal expansion
float_str(n, d) ==
    ToString(n \div d) \o "." \o (IF n % d = 0 THEN "0" ELSE decimals(n % d, d, 6))

-----------------------------------------------------------------------------
(* format_activity_description(act, api_context): the activity as the call *)
(* leaves it, and what the lookups did to the client.                      *)

\* the activity with its description set
described(act, text) == PyDict(("description" :> PyStr(text)) @@ act.v)

\* the outcome of format_activity_description: the client as the lookups
\* leave it, the exception if one is raised, the activity, the requests sent
ActOutcome(s, cache, md, exc, act, reqs) ==
    [session |-> s, cache |-> cache, md |-> md, exc |-> exc, act |-> act,
     requests |-> reqs]

\* line 206: the default description
default_description(act) ==
    described(act, py_str(act.v["type"]) \o ": " \o py_str(act.v["subType"]))

RECURSIVE last_match(_, _, _, _)
\* lines 210-211: the last account of the list with the given id, or None
last_match(accounts, id, i, found) ==
    IF i > Len(accounts) THEN found
    ELSE last_match(accounts, id, i + 1,
                    IF accounts[i].v["id"] = id THEN accounts[i] ELSE found)

\* lines 208-220: an internal transfer or asset movement
format_internal_transfer(s, ua, cache, md, act, answers) ==
    LET needs_token == get_token_info(s, ua, cache, NoAnswer).exc = NeedAnswer
        direction == IF act.v["subType"] = PyStr("SOURCE") THEN "to" ELSE "from"
        account_description(target_account) ==
            IF Truthy(target_account)
            THEN py_str(target_account.v["description"]) \o " ("
                 \o py_str(target_account.v["number"]) \o ")"
            ELSE py_str(act.v["opposingAccountId"])
        \* lines 210-220: the accounts listed
        listed(g) ==
            IF g.exc # "none"
            THEN ActOutcome(g.session, g.cache, md, g.exc, default_description(act), g.requests)
            ELSE ActOutcome(g.session, g.cache, md, "none",
                     described(act, "Money transfer: " \o direction \o " Wealthsimple "
                         \o account_description(
                                last_match(g.result.v, act.v["opposingAccountId"], 1, PyNone))),
                     g.requests)
    IN listed(get_accounts(s, ua, cache, FALSE, TRUE,
                           IF needs_token THEN AnswerAt(answers, 1) ELSE NoAnswer,
                           IF needs_token THEN SubSeq(answers, 2, Len(answers)) ELSE answers))

\* lines 222-239: a buy or a sell
format_buy_sell(s, ua, cache, md, act, answers) ==
    LET ty == act.v["type"].v
        verb == IF ty \in {"MANAGED_BUY", "MANAGED_SELL"} THEN "Managed transaction"
                ELSE py_capitalize(py_replace(act.v["subType"].v, "_", " "))
        action == IF ty \in {"DIY_BUY", "MANAGED_BUY"} THEN "buy" ELSE "sell"
        quantity == act.v["assetQuantity"]
        amount == act.v["amount"]
        \* lines 231-239: the symbol looked up
        with_symbol(sym) ==
            IF sym.exc # "none"
            THEN ActOutcome(s, cache, sym.md, sym.exc, default_description(act), sym.requests)
            ELSE IF quantity = PyNone
            THEN ActOutcome(s, cache, sym.md, "none",
                            described(act, verb \o ": " \o action \o " TBD"), sym.requests)
            ELSE IF amount.t # "int"
            THEN ActOutcome(s, cache, sym.md, "TypeError", default_description(act), sym.requests)
            ELSE IF quantity.v = 0
            THEN ActOutcome(s, cache, sym.md, "ZeroDivisionError", default_description(act),
                            sym.requests)
            ELSE ActOutcome(s, cache, sym.md, "none",
                     described(act, verb \o ": " \o action \o " " \o float_str(quantity.v, 1)
                                    \o " x " \o sym.data.v \o " @ "
                                    \o float_str(amount.v, quantity.v)),
                     sym.requests)
    IN IF ty \notin {"MANAGED_BUY", "MANAGED_SELL"} /\ act.v["subType"].t # "str"
       THEN ActOutcome(s, cache, md, "AttributeError", default_description(act), <<>>)
       ELSE with_symbol(security_id_to_symbol(s, ua, md, act.v["securityId"],
                                              AnswerAt(answers, 1)))

RECURSIVE first_entitlement(_, _, _)
\* lines 120-135: next(...) over the child activities from the i-th on
first_entitlement(children, entitlement, i) ==
    IF i > Len(children) THEN PyNone
    ELSE IF children[i].v["entitlementType"] = PyStr(entitlement) THEN children[i]
    ELSE first_entitlement(children, entitlement, i + 1)

\* lines 117-157: _format_corporate_action_subdivision once its test of
\* line 114 has passed
format_corporate_action_subdivision(s, ua, cache, md, act, answers) ==
    LET text(held, receive) ==
            IF Truthy(held) /\ Truthy(receive)
            THEN "Subdivision: " \o float_str(held.v["quantity"].v, 1) \o " -> "
                 \o float_str(held.v["quantity"].v + receive.v["quantity"].v, 1)
                 \o " shares of " \o py_str(act.v["assetSymbol"])
            ELSE "Subdivision: Received " \o float_str(act.v["amount"].v, 1)
                 \o " new shares of " \o py_str(act.v["assetSymbol"])
        \* lines 152-155: the currency of the security's fundamentals
        with_currency(a1, fundamentals) ==
            IF Truthy(fundamentals) /\ fundamentals.t = "dict"
            THEN PyDict(("currency" :> Get(fundamentals, "currency")) @@ a1.v)
            ELSE a1
        \* lines 149-155: the market data looked up
        with_market_data(c, a1, m) ==
            IF m.exc # "none"
            THEN ActOutcome(s, cache, m.md, m.exc, a1,
                            IF m.exc = NeedAnswer THEN <<>> ELSE c.requests \o m.requests)
            ELSE ActOutcome(s, cache, m.md, "none",
                     IF Truthy(m.data) /\ m.data.t = "dict"
                     THEN with_currency(a1, Get(m.data, "fundamentals")) ELSE a1,
                     c.requests \o m.requests)
        \* lines 120-157: the entitlements among the child activities
        entitled(c, held, receive) ==
            IF ~(Truthy(held) /\ Truthy(receive)) /\ act.v["amount"].t # "int"
            THEN ActOutcome(s, cache, md, "TypeError", default_description(act), c.requests)
            ELSE IF act.v["currency"] # PyNone
            THEN ActOutcome(s, cache, md, "none", described(act, text(held, receive)),
                            c.requests)
            ELSE with_market_data(c, described(act, text(held, receive)),
                     get_security_market_data(s, ua, md, act.v["securityId"], TRUE,
                                              AnswerAt(answers, 2)))
        \* lines 117-119: the child activities fetched
        with_children(c) ==
            IF c.exc # "none"
            THEN ActOutcome(s, cache, md, c.exc, default_description(act), c.requests)
            ELSE entitled(c, first_entitlement(c.data.v, "HOLD", 1),
                          first_entitlement(c.data.v, "RECEIVE", 1))
    IN with_children(get_corporate_action_child_activities(s, ua, act.v["canonicalId"],
                                                           AnswerAt(answers, 1)))

\* lines 257-272: an activity of subtype EFT
format_eft(s, ua, cache, md, act, answers) ==
    LET ty == act.v["type"].v
        type_ == py_capitalize(py_lower(ty))
        direction == IF ty = "DEPOSIT" THEN "from" ELSE "to"
        prop == IF ty = "DEPOSIT" THEN "source" ELSE "destination"
        \* lines 266-272: the bank account of the transfer
        with_bank_account(d, bank_account) ==
            IF bank_account.t # "dict"
            THEN ActOutcome(s, cache, md, "AttributeError", default_description(act), d.requests)
            ELSE ActOutcome(s, cache, md, "none",
                     described(act, type_ \o ": EFT " \o direction \o " "
                         \o py_str(IF Truthy(Get(bank_account, "nickname"))
                                   THEN Get(bank_account, "nickname")
                                   ELSE Get(bank_account, "accountName"))
                         \o " " \o py_str(Get(bank_account, "accountNumber"))),
                     d.requests)
        \* line 265: details.get(prop, {})
        with_info(d, bank_account_info) ==
            with_bank_account(d, IF bank_account_info.t = "dict"
                                 THEN GetOr(bank_account_info, "bankAccount", PyDict(<<>>))
                                 ELSE PyDict(<<>>))
        \* lines 258-272: the details fetched
        with_details(d) ==
            IF d.exc # "none"
            THEN ActOutcome(s, cache, md, d.exc, default_description(act), d.requests)
            ELSE with_info(d, IF d.data.t = "dict" THEN GetOr(d.data, prop, PyDict(<<>>))
                              ELSE PyDict(<<>>))
    IN with_details(get_etf_details(s, ua, act.v["externalCanonicalId"], AnswerAt(answers, 1)))

\* lines 77-94: an institutional transfer in
format_institutional_transfer_in(s, ua, cache, md, act, answers) ==
    LET keys == {"transferType", "clientAccountType", "institutionName",
                 "redactedInstitutionAccountNumber"}
        \* lines 78-94: the details fetched
        with_details(d) ==
            IF d.exc # "none"
            THEN ActOutcome(s, cache, md, d.exc, default_description(act), d.requests)
            ELSE IF ~(keys \subseteq DOMAIN d.data.v)
            THEN ActOutcome(s, cache, md, "KeyError", default_description(act), d.requests)
            ELSE IF d.data.v["transferType"].t # "str" \/ d.data.v["clientAccountType"].t # "str"
            THEN ActOutcome(s, cache, md, "AttributeError", default_description(act), d.requests)
            ELSE ActOutcome(s, cache, md, "none",
                     described(act, "Institutional transfer: "
                         \o py_capitalize(py_replace(d.data.v["transferType"].v, "_", "-")) \o " "
                         \o py_upper(d.data.v["clientAccountType"].v)
                         \o " account transfer from " \o py_str(d.data.v["institutionName"])
                         \o " ****" \o py_str(d.data.v["redactedInstitutionAccountNumber"])),
                     d.requests)
    IN with_details(get_transfer_details(s, ua, act.v["externalCanonicalId"],
                                         AnswerAt(answers, 1)))

\* lines 285-287: a dividend
format_dividend(s, ua, cache, md, act, answers) ==
    LET with_symbol(sym) ==
            IF sym.exc # "none"
            THEN ActOutcome(s, cache, sym.md, sym.exc, default_description(act), sym.requests)
            ELSE ActOutcome(s, cache, sym.md, "none",
                            described(act, "Dividend: " \o sym.data.v), sym.requests)
    IN with_symbol(security_id_to_symbol(s, ua, md, act.v["securityId"], AnswerAt(answers, 1)))

\* lines 160-190: _format_credit_card_description, None as the empty string
format_credit_card_description(act) ==
    LET ty == act.v["type"]
        st == act.v["subType"]
        status == IF act.v["status"] = PyStr("authorized") THEN "(Pending) " ELSE ""
        merchant == py_str(act.v["spendMerchant"])
    IN IF ty = PyStr("CREDIT_CARD") /\ st = PyStr("PURCHASE")
       THEN status \o "Credit card purchase: " \o merchant
       ELSE IF ty = PyStr("CREDIT_CARD") /\ st = PyStr("HOLD")
       THEN status \o "Credit card refund: " \o merchant
       ELSE IF ty = PyStr("CREDIT_CARD") /\ st = PyStr("REFUND")
       THEN "Credit card refund: " \o merchant
       ELSE IF (ty = PyStr("CREDIT_CARD") /\ st = PyStr("PAYMENT"))
               \/ ty = PyStr("CREDIT_CARD_PAYMENT")
       THEN "Credit card payment"
       ELSE ""

\* the test of line 257 made for deposits and withdrawals only
is_eft_of_deposit_or_withdrawal(act) ==
    act.v["subType"] = PyStr("EFT") /\ act.v["type"] \in {PyStr("DEPOSIT"), PyStr("WITHDRAWAL")}

\* the test of line 257: act["subType"] == "EFT"
is_eft(act) == act.v["subType"] = PyStr("EFT")

\* lines 289-358: the rules after the dividend rule, none of which makes a
\* lookup; the description they write, or the empty string if none applies
description_after_dividend(act) ==
    LET ty == act.v["type"]
        st == act.v["subType"]
        T(x) == PyStr(x)
        credit_card_desc == format_credit_card_description(act)
    IN IF ty = T("FUNDS_CONVERSION")
       THEN "Funds converted: " \o py_str(act.v["currency"]) \o " from "
            \o (IF act.v["currency"] = T("CAD") THEN "USD" ELSE "CAD")
       ELSE IF ty = T("NON_RESIDENT_TAX") THEN "Non-resident tax"
       ELSE IF ty \in {T("DEPOSIT"), T("WITHDRAWAL")} /\ st = T("AFT")
       THEN (IF ty = T("DEPOSIT") THEN "Direct deposit: from " ELSE "Pre-authorized debit: to ")
            \o py_str(IF Truthy(act.v["aftOriginatorName"]) THEN act.v["aftOriginatorName"]
                      ELSE act.v["externalCanonicalId"])
       ELSE IF ty = T("WITHDRAWAL") /\ st = T("BILL_PAY")
       THEN py_capitalize(ty.v) \o ": Bill pay "
            \o py_str(IF Truthy(act.v["billPayPayeeNickname"])
                      THEN act.v["billPayPayeeNickname"] ELSE act.v["billPayCompanyName"])
            \o " " \o py_str(act.v["redactedExternalAccountNumber"])
       ELSE IF ty = T("P2P_PAYMENT") /\ st \in {T("SEND"), T("SEND_RECEIVED")}
       THEN "Cash " \o (IF st = T("SEND") THEN "sent to" ELSE "received from")
            \o " " \o py_str(act.v["p2pHandle"])
       ELSE IF ty = T("PROMOTION") /\ st = T("INCENTIVE_BONUS")
       THEN py_capitalize(ty.v) \o ": " \o py_capitalize(py_replace(st.v, "_", " "))
       ELSE IF ty = T("REFERRAL") /\ st = PyNone THEN py_capitalize(ty.v)
       ELSE IF credit_card_desc # "" THEN credit_card_desc
       ELSE IF ty = T("REIMBURSEMENT") /\ st = T("CASHBACK")
       THEN py_rstrip("Cash back "
                \o (IF act.v["rewardProgram"] = T("CREDIT_CARD_VISA_INFINITE_REWARDS")
                    THEN "- Visa Infinite" ELSE ""))
       ELSE IF ty = T("SPEND") /\ st = T("PREPAID")
       THEN "Purchase: " \o py_str(act.v["spendMerchant"])
       ELSE IF ty = T("INTEREST_CHARGE")
       THEN IF st = T("MARGIN_INTEREST") THEN "Interest Charge: margin interest"
            ELSE "Interest Charge"
       ELSE IF ty = T("FEE") /\ st = T("MANAGEMENT_FEE") THEN "Management fee"
       ELSE ""

\* format_activity_description(act, api_context): answers are the answers
\* to the requests of the lookups, in the order they are sent
format_activity_description(s, ua, cache, md, act, answers) ==
    LET ty == act.v["type"]
        st == act.v["subType"]
        T(x) == PyStr(x)
        write(text) == ActOutcome(s, cache, md, "none", described(act, text), <<>>)
        later == description_after_dividend(act)
    IN IF ty \in {T("INTERNAL_TRANSFER"), T("ASSET_MOVEMENT")}
       THEN format_internal_transfer(s, ua, cache, md, act, answers)
       ELSE IF ty \in {T("DIY_BUY"), T("DIY_SELL"), T("MANAGED_BUY"), T("MANAGED_SELL")}
       THEN format_buy_sell(s, ua, cache, md, act, answers)
       ELSE IF ty = T("CORPORATE_ACTION") /\ st = T("SUBDIVISION")
       THEN format_corporate_action_subdivision(s, ua, cache, md, act, answers)
       ELSE IF ty \in {T("DEPOSIT"), T("WITHDRAWAL")}
               /\ st \in {T("E_TRANSFER"), T("E_TRANSFER_FUNDING")}
       THEN write("Deposit: Interac e-transfer "
                  \o (IF ty = T("DEPOSIT") THEN "from" ELSE "to") \o " "
                  \o py_str(act.v["eTransferName"]) \o " " \o py_str(act.v["eTransferEmail"]))
       ELSE IF ty = T("DEPOSIT") /\ st = T("PAYMENT_CARD_TRANSACTION")
       THEN write(py_capitalize(py_lower(ty.v)) \o ": Debit card funding")
       ELSE IF is_eft(act) THEN format_eft(s, ua, cache, md, act, answers)
       ELSE IF ty = T("REFUND") /\ st = T("TRANSFER_FEE_REFUND")
       THEN write("Reimbursement: account transfer fee")
       ELSE IF ty = T("INSTITUTIONAL_TRANSFER_INTENT") /\ st = T("TRANSFER_IN")
       THEN format_institutional_transfer_in(s, ua, cache, md, act, answers)
       ELSE IF ty = T("INSTITUTIONAL_TRANSFER_INTENT") /\ st = T("TRANSFER_OUT")
       THEN write("Institutional transfer: transfer to " \o py_str(act.v["institutionName"]))
       ELSE IF ty = T("INTEREST")
       THEN write(IF st = T("FPL_INTEREST") THEN "Stock Lending Earnings" ELSE "Interest")
       ELSE IF ty = T("DIVIDEND") THEN format_dividend(s, ua, cache, md, act, answers)
       ELSE IF later # "" THEN write(later)
       ELSE ActOutcome(s, cache, md, "none", default_description(act), <<>>)

-----------------------------------------------------------------------------
(* Activities and the answers to the lookups.                              *)

\* the most requests the lookups of one classification are followed through
MaxLookups == 2

\* an activity as the provider lists it: every member the rules read is
\* present, null where it does not apply; fields overrides the members
Activity(type, subType, fields) ==
    PyDict(fields
           @@ ("type" :> PyStr(type)) @@ ("subType" :> subType)
           @@ ("canonicalId" :> PyStr("act-1")) @@ ("opposingAccountId" :> PyStr("a3"))
           @@ ("securityId" :> PyStr("sec-s-1")) @@ ("assetSymbol" :> PyStr("AAA"))
           @@ ("assetQuantity" :> PyInt(4)) @@ ("amount" :> PyInt(10))
           @@ ("currency" :> PyStr("CAD")) @@ ("status" :> PyStr("settled"))
           @@ ("eTransferName" :> PyStr("Ann")) @@ ("eTransferEmail" :> PyStr("ann@example.com"))
           @@ ("externalCanonicalId" :> PyStr("ext-1")) @@ ("institutionName" :> PyStr("Bank B"))
           @@ ("aftOriginatorName" :> PyNone) @@ ("billPayPayeeNickname" :> PyNone)
           @@ ("billPayCompanyName" :> PyStr("Hydro"))
           @@ ("redactedExternalAccountNumber" :> PyStr("**12"))
           @@ ("p2pHandle" :> PyStr("@bob")) @@ ("spendMerchant" :> PyStr("Cafe"))
           @@ ("rewardProgram" :> PyNone))

\* the activity types the rules name, and one they do not
ActivityTypes ==
    {"INTERNAL_TRANSFER", "ASSET_MOVEMENT", "DIY_BUY", "DIY_SELL", "MANAGED_BUY",
     "MANAGED_SELL", "CORPORATE_ACTION", "DEPOSIT", "WITHDRAWAL", "REFUND",
     "INSTITUTIONAL_TRANSFER_INTENT", "INTEREST", "DIVIDEND", "FUNDS_CONVERSION",
     "NON_RESIDENT_TAX", "P2P_PAYMENT", "PROMOTION", "REFERRAL", "CREDIT_CARD",
     "CREDIT_CARD_PAYMENT", "REIMBURSEMENT", "SPEND", "INTEREST_CHARGE", "FEE", "LEGACY"}

\* the subtypes the rules name, one they do not, and null
ActivitySubTypes ==
    { PyStr(x) : x \in
        {"SOURCE", "MARKET_ORDER", "SUBDIVISION", "E_TRANSFER", "E_TRANSFER_FUNDING",
         "PAYMENT_CARD_TRANSACTION", "EFT", "TRANSFER_FEE_REFUND", "TRANSFER_IN",
         "TRANSFER_OUT", "FPL_INTEREST", "AFT", "BILL_PAY", "SEND", "SEND_RECEIVED",
         "INCENTIVE_BONUS", "PURCHASE", "HOLD", "REFUND", "PAYMENT", "CASHBACK",
         "PREPAID", "MARGIN_INTEREST", "MANAGEMENT_FEE", "OTHER"} } \cup {PyNone}

\* every combination of type and subtype
ActivitiesOfEveryKind ==
    { Activity(ty, st, <<>>) : ty \in ActivityTypes, st \in ActivitySubTypes }

\* activities of the rules that make a lookup, with quantities and currency
\* present or not
ActivitiesWithLookups ==
    { Activity("DIVIDEND", PyNone, <<>>),
      Activity("DIY_BUY", PyStr("MARKET_ORDER"), <<>>),
      Activity("DIY_SELL", PyStr("LIMIT_ORDER"), "assetQuantity" :> PyNone),
      Activity("MANAGED_BUY", PyNone, "assetQuantity" :> PyInt(0)),
      Activity("CORPORATE_ACTION", PyStr("SUBDIVISION"), <<>>),
      Activity("CORPORATE_ACTION", PyStr("SUBDIVISION"), "currency" :> PyNone),
      Activity("DEPOSIT", PyStr("EFT"), <<>>),
      Activity("WITHDRAWAL", PyStr("EFT"), <<>>),
      Activity("INSTITUTIONAL_TRANSFER_INTENT", PyStr("TRANSFER_IN"), <<>>),
      Activity("INTERNAL_TRANSFER", PyStr("SOURCE"), <<>>) }

\* a security as the market-data query describes it
Security(stock) ==
    PyDict(("id" :> PyStr("sec-s-1")) @@ ("stock" :> stock)
           @@ ("fundamentals" :> PyDict("currency" :> PyStr("USD"))))

\* the request is the GraphQL query of the given name
IsQueryRequest(r, query_name) ==
    r.url = GRAPHQL_URL /\ Get(r.json, "operationName") = PyStr(query_name)

\* decoded answers of the provider to a request of a lookup
AnswersTo(r) ==
    {TransportFailure} \cup
    (IF r.url = OAUTH_BASE_URL \o "/token/info"
     THEN {PyDict("identity_canonical_id" :> PyStr("identity-1"))}
     ELSE {PyDict("data" :> PyNone)} \cup
      (CASE IsQueryRequest(r, "FetchAllAccountFinancials") ->
              { AccountsPage(<<Account("a2", "closed"), Account("a3", "open")>>,
                             PageInfo(FALSE, PyNone)) }
         [] IsQueryRequest(r, "FetchSecurityMarketData") ->
              { PyDict("data" :> PyDict("security" :> PyNone)),
                PyDict("data" :> PyDict("security" :> Security(PyNone))),
                PyDict("data" :> PyDict("security" :> Security(
                    PyDict(("primaryExchange" :> PyStr("TSX")) @@ ("symbol" :> PyStr("AAA")))))) }
         [] IsQueryRequest(r, "FetchFundsTransfer") ->
              { PyDict("data" :> PyDict("fundsTransfer" :> PyNone)),
                PyDict("data" :> PyDict("fundsTransfer" :> PyDict("source" :> PyNone))),
                PyDict("data" :> PyDict("fundsTransfer" :> PyDict(
                    ("source" :> PyDict("bankAccount" :> PyDict(
                        ("nickname" :> PyStr("Chequing")) @@ ("accountNumber" :> PyStr("**34")))))
                    @@ ("destination" :> PyDict("bankAccount" :> PyDict(
                        ("accountName" :> PyStr("Savings")) @@ ("accountNumber" :> PyStr("**56")))))))) }
         [] IsQueryRequest(r, "FetchInstitutionalTransfer") ->
              { PyDict("data" :> PyDict("accountTransfer" :> PyNone)),
                PyDict("data" :> PyDict("accountTransfer" :> PyDict(
                    ("transferType" :> PyStr("PARTIAL_IN_KIND")) @@ ("clientAccountType" :> PyStr("tfsa"))
                    @@ ("institutionName" :> PyStr("Bank B"))
                    @@ ("redactedInstitutionAccountNumber" :> PyStr("78"))))) }
         [] IsQueryRequest(r, "FetchCorporateActionChildActivities") ->
              { PyDict("data" :> PyDict("corporateActionChildActivities" :> PyNone)),
                PyDict("data" :> PyDict("corporateActionChildActivities" :>
                    PyDict("nodes" :> PyList(<<>>)))),
                PyDict("data" :> PyDict("corporateActionChildActivities" :>
                    PyDict("nodes" :> PyList(<<
                        PyDict(("entitlementType" :> PyStr("RECEIVE")) @@ ("quantity" :> PyInt(3))),
                        PyDict(("entitlementType" :> PyStr("HOLD")) @@ ("quantity" :> PyInt(1)))>>)))) }
         [] OTHER -> {}))

RECURSIVE ActivityAnswerSeqs(_, _, _, _, _, _)
\* the answers format_activity_description receives: one per request its
\* lookups send, for calls that end within MaxLookups requests
ActivityAnswerSeqs(s, ua, cache, md, act, prefix) ==
    LET answered(sent) ==
            UNION { ActivityAnswerSeqs(s, ua, cache, md, act, Append(prefix, a)) :
                      a \in AnswersTo(sent[Len(sent)]) }
    IN IF format_activity_description(s, ua, cache, md, act, prefix).exc # NeedAnswer
       THEN {prefix}
       ELSE IF Len(prefix) >= MaxLookups THEN {}
       ELSE answered(format_activity_description(s, ua, cache, md, act,
                                                 Append(prefix, TransportFailure)).requests)

\* what is observed of a format_activity_description call
ObserveActivity(op, act, answers, out) ==
    [op |-> op, entry |-> session, cache_at_entry |-> account_cache,
     md_at_entry |-> security_market_data_cache, act |-> act, answers |-> answers,
     exc |-> out.exc, result |-> out.act, requests |-> out.requests]

\* the account cache after get_accounts(False) listed two accounts
ListedAccounts ==
    get_accounts(WSAPISession, PyNone, EmptyCache, FALSE, TRUE,
                 PyDict("identity_canonical_id" :> PyStr("identity-1")),
                 << AccountsPage(<<Account("a2", "closed"), Account("a3", "open")>>,
                                 PageInfo(FALSE, PyNone)) >>).cache

\* a logged-in client, before or after it listed its accounts, without a
\* market-data cache, and an activity of the provider's listing that the
\* caller holds
InitActivity ==
    /\ session = [WSAPISession EXCEPT !.client_id = PyStr("cid0"),
                                      !.session_id = PyStr("sid0"),
                                      !.wssdi = PyStr("dev0"),
                                      !.access_token = PyStr("atok0"),
                                      !.refresh_token = PyStr("rtok0")]
    /\ user_agent = PyNone
    /\ constructed = TRUE
    /\ account_cache \in {EmptyCache, ListedAccounts}
    /\ security_market_data_cache = NoMarketDataCache
    /\ \E act \in ActivitiesOfEveryKind \cup ActivitiesWithLookups :
          last = ObserveActivity("new", act, <<>>,
                                 ActOutcome(session, account_cache, NoMarketDataCache,
                                            "none", act, <<>>))

\* set_security_market_data_cache(getter, setter): callbacks over an empty
\* store; the setter may be None
SetSecurityMarketDataCache ==
    /\ \E setter \in BOOLEAN :
          security_market_data_cache' = MarketDataCache(TRUE, setter, PyDict(<<>>))
    /\ UNCHANGED <<session, user_agent, constructed, account_cache, last>>

\* format_activity_description(act, api) on the activity the caller holds
FormatActivity ==
    \E answers \in ActivityAnswerSeqs(session, user_agent, account_cache,
                                      security_market_data_cache, last.result, <<>>) :
    \E out \in { format_activity_description(session, user_agent, account_cache,
                                             security_market_data_cache, last.result, answers) } :
       /\ session' = out.session
       /\ account_cache' = out.cache
       /\ security_market_data_cache' = out.md
       /\ last' = ObserveActivity("format_activity_description", last.result, answers, out)
       /\ UNCHANGED <<user_agent, constructed>>

NextActivity ==
    \/ SetSecurityMarketDataCache
    \/ FormatActivity

SpecActivity == InitActivity /\ [][NextActivity]_vars

-----------------------------------------------------------------------------
(* Claims about the order of the rules.                                    *)

IsFormatActivity == last.op = "format_activity_description"

RECURSIVE StartsAt(_, _, _)
\* part stands in s at the i-th place or later
StartsAt(s, part, i) ==
    IF i + Len(part) - 1 > Len(s) THEN FALSE
    ELSE SubSeq(s, i, i + Len(part) - 1) = part \/ StartsAt(s, part, i + 1)

\* s begins with part
StartsWith(s, part) == Len(part) <= Len(s) /\ SubSeq(s, 1, Len(part)) = part

\* s has part in it
Contains(s, part) == StartsAt(s, part, 1)

\* the predicate of the k-th rule of the fixed order, on type and subtype
RuleMatches(k, ty, st) ==
    CASE k = 1 -> ty \in {"INTERNAL_TRANSFER", "ASSET_MOVEMENT"}
      [] k = 2 -> ty \in {"DIY_BUY", "DIY_SELL", "MANAGED_BUY", "MANAGED_SELL"}
      [] k = 3 -> ty = "CORPORATE_ACTION" /\ st = PyStr("SUBDIVISION")
      [] k = 4 -> ty \in {"DEPOSIT", "WITHDRAWAL"}
                  /\ st \in {PyStr("E_TRANSFER"), PyStr("E_TRANSFER_FUNDING")}
      [] k = 5 -> ty = "DEPOSIT" /\ st = PyStr("PAYMENT_CARD_TRANSACTION")
      [] k = 6 -> st = PyStr("EFT")
      [] k = 7 -> ty = "REFUND" /\ st = PyStr("TRANSFER_FEE_REFUND")
      [] k = 8 -> ty = "INSTITUTIONAL_TRANSFER_INTENT"
                  /\ st \in {PyStr("TRANSFER_IN"), PyStr("TRANSFER_OUT")}
      [] k = 9 -> ty = "INTEREST"
      [] k = 10 -> ty = "DIVIDEND"
      [] k = 11 -> ty = "FUNDS_CONVERSION"
      [] k = 12 -> ty = "NON_RESIDENT_TAX"
      [] k = 13 -> ty \in {"DEPOSIT", "WITHDRAWAL"} /\ st = PyStr("AFT")
      [] k = 14 -> ty = "WITHDRAWAL" /\ st = PyStr("BILL_PAY")
      [] k = 15 -> ty = "P2P_PAYMENT" /\ st \in {PyStr("SEND"), PyStr("SEND_RECEIVED")}
      [] k = 16 -> ty = "PROMOTION" /\ st = PyStr("INCENTIVE_BONUS")
      [] k = 17 -> ty = "REFERRAL" /\ st = PyNone
      [] k = 18 -> \/ ty = "CREDIT_CARD_PAYMENT"
                   \/ ty = "CREDIT_CARD" /\ st \in {PyStr("PURCHASE"), PyStr("HOLD"),
                                                   PyStr("REFUND"), PyStr("PAYMENT")}
      [] k = 19 -> ty = "REIMBURSEMENT" /\ st = PyStr("CASHBACK")
      [] k = 20 -> ty = "SPEND" /\ st = PyStr("PREPAID")
      [] k = 21 -> ty = "INTEREST_CHARGE"
      [] k = 22 -> ty = "FEE" /\ st = PyStr("MANAGEMENT_FEE")

\* the earliest rule that matches, 0 if none does
EarliestRule(ty, st) ==
    IF \E k \in 1..22 : RuleMatches(k, ty, st)
    THEN CHOOSE k \in 1..22 :
            RuleMatches(k, ty, st) /\ \A j \in 1..(k - 1) : ~RuleMatches(j, ty, st)
    ELSE 0

\* d is a description the k-th rule writes
WrittenBy(k, d) ==
    CASE k = 1 -> StartsWith(d, "Money transfer: ")
      [] k = 2 -> Contains(d, ": buy ") \/ Contains(d, ": sell ")
      [] k = 3 -> StartsWith(d, "Subdivision: ")
      [] k = 4 -> StartsWith(d, "Deposit: Interac e-transfer ")
      [] k = 5 -> d = "Deposit: Debit card funding"
      [] k = 6 -> Contains(d, ": EFT ")
      [] k = 7 -> d = "Reimbursement: account transfer fee"
      [] k = 8 -> StartsWith(d, "Institutional transfer: ")
      [] k = 9 -> d \in {"Interest", "Stock Lending Earnings"}
      [] k = 10 -> StartsWith(d, "Dividend: ")
      [] k = 11 -> StartsWith(d, "Funds converted: ")
      [] k = 12 -> d = "Non-resident tax"
      [] k = 13 -> StartsWith(d, "Direct deposit: ") \/ StartsWith(d, "Pre-authorized debit: ")
      [] k = 14 -> StartsWith(d, "Withdrawal: Bill pay ")
      [] k = 15 -> StartsWith(d, "Cash sent to ") \/ StartsWith(d, "Cash received from ")
      [] k = 16 -> d = "Promotion: Incentive bonus"
      [] k = 17 -> d = "Referral"
      [] k = 18 -> Contains(d, "Credit card ")
      [] k = 19 -> StartsWith(d, "Cash back")
      [] k = 20 -> StartsWith(d, "Purchase: ")
      [] k = 21 -> StartsWith(d, "Interest Charge")
      [] k = 22 -> d = "Management fee"

\* the default description of an activity
DefaultOf(act) == py_str(act.v["type"]) \o ": " \o py_str(act.v["subType"])

\* the rules whose handler can raise: those that make a lookup or compute
RulesThatRaise == {1, 2, 3, 6, 8, 10}

\* C24: for every type and subtype, a call that returns leaves the
\* description of the earliest rule of the fixed order whose predicate
\* matches (an activity of subtype EFT that rules 1 to 5 do not match gets the
\* EFT label whatever its type), and the default '{type}: {subType}' when no
\* rule matches; a call that raises was stopped in the handler of the
\* earliest matching rule.
C24_EarliestRule ==
    IsFormatActivity =>
        LET k == EarliestRule(last.act.v["type"].v, last.act.v["subType"])
            d == last.result.v["description"].v
        IN /\ last.exc = "none" /\ k = 0 => d = DefaultOf(last.act)
           /\ last.exc = "none" /\ k > 0 => WrittenBy(k, d) /\ d # DefaultOf(last.act)
           /\ last.exc # "none" => k \in RulesThatRaise

\* C24 witness: an interest activity of subtype EFT is labelled by the EFT
\* rule, which comes before the interest rule.
C24_Witness ==
    /\ IsFormatActivity
    /\ last.act.v["type"] = PyStr("INTEREST")
    /\ last.act.v["subType"] = PyStr("EFT")
    /\ last.exc = "none"
    /\ last.result.v["description"] = PyStr("Interest: EFT to None None")

-----------------------------------------------------------------------------
(* Claims about the lookups of the rules.                                  *)

\* the answer the call received to its i-th request
AnswerTo(i) == last.answers[i]

\* the call sent the query of the given name and got an answer of set A
Answered(query_name, A) ==
    \E i \in DOMAIN last.requests :
       IsQueryRequest(last.requests[i], query_name) /\ AnswerTo(i) \in A

\* answers to a query for one object that hold no such object: no data, or
\* null at the place of the object
NoObjectAnswers(name) == {PyDict("data" :> PyNone), PyDict("data" :> PyDict(name :> PyNone))}

\* the rule that classifies the activity of the call
RuleOfCall == EarliestRule(last.act.v["type"].v, last.act.v["subType"])

\* the description the call left
DescriptionLeft == last.result.v["description"].v

\* C28: when the market-data lookup made for the symbol of a buy, sell or
\* dividend activity fails (the answer holds no security), the call does
\* not raise, security_id_to_symbol gives '[<security_id>]', and the
\* dividend is labelled 'Dividend: [<security_id>]'.
C28_Original_SymbolLookupFailureAbsorbed ==
    ( /\ IsFormatActivity
      /\ RuleOfCall \in {2, 10}
      /\ last.act.v["assetQuantity"] # PyInt(0)
      /\ Answered("FetchSecurityMarketData", NoObjectAnswers("security")) )
    => /\ last.exc = "none"
       /\ RuleOfCall = 10 => DescriptionLeft = "Dividend: [sec-s-1]"

\* the market-data answers that hold the stock AAA of exchange TSX
ResolvedAnswers ==
    { PyDict("data" :> PyDict("security" :> Security(
          PyDict(("primaryExchange" :> PyStr("TSX")) @@ ("symbol" :> PyStr("AAA")))))) }

\* the market-data answers that give no stock: no answer, no security, a
\* security without stock
UnresolvedAnswers ==
    {TransportFailure, PyDict("data" :> PyDict("security" :> Security(PyNone)))}
    \cup NoObjectAnswers("security")

\* C29: a dividend activity is labelled 'Dividend: TSX:AAA' when the
\* market-data query for its security is answered with stock AAA of
\* exchange TSX, and it is labelled 'Dividend: [<security_id>]' only when
\* that query was sent and its answer was not such a stock.
C29_Original_DividendLabel ==
    (IsFormatActivity /\ RuleOfCall = 10 /\ last.exc = "none")
    => /\ Answered("FetchSecurityMarketData", ResolvedAnswers)
             => DescriptionLeft = "Dividend: TSX:AAA"
       /\ DescriptionLeft = "Dividend: [sec-s-1]"
             => Answered("FetchSecurityMarketData", UnresolvedAnswers)

\* the lookups of the transfer details, the funds-transfer details and the
\* child activities of a corporate action, with the place of their result
DetailLookups ==
    { <<"FetchInstitutionalTransfer", "accountTransfer">>,
      <<"FetchFundsTransfer", "fundsTransfer">>,
      <<"FetchCorporateActionChildActivities", "corporateActionChildActivities">> }

\* the call made the lookup q and it failed: no answer, or an answer
\* without the object
DetailLookupFailed(q) == Answered(q[1], {TransportFailure} \cup NoObjectAnswers(q[2]))

\* C30: when the lookup of the transfer details, of the funds-transfer
\* details or of the child activities of a corporate action fails, the call
\* raises, the failed request is the last it sent, the description is the
\* default '{type}: {subType}' and nothing else of the activity is changed.
C30_DetailLookupFailurePropagates ==
    \A q \in DetailLookups :
       (IsFormatActivity /\ DetailLookupFailed(q))
       => /\ last.exc \notin {"none", NeedAnswer}
          /\ IsQueryRequest(last.requests[Len(last.requests)], q[1])
          /\ last.result = PyDict(("description" :> PyStr(DefaultOf(last.act))) @@ last.act.v)
          /\ RuleOfCall \in {3, 6, 8}

\* C30 witness: the funds-transfer details of an EFT deposit are answered
\* with a null object; the call raises WSApiException and the description
\* is the default.
C30_Witness ==
    /\ IsFormatActivity
    /\ last.act.v["type"] = PyStr("DEPOSIT")
    /\ last.act.v["subType"] = PyStr("EFT")
    /\ Answered("FetchFundsTransfer", {PyDict("data" :> PyDict("fundsTransfer" :> PyNone))})
    /\ last.exc = "WSApiException"
    /\ last.result.v["description"] = PyStr("DEPOSIT: EFT")

-----------------------------------------------------------------------------
(* get_statement_transactions: the transactions of a monthly statement.    *)

\* `key in x` raises TypeError: x is None, a bool or a number
member_test_raises(x) == x.t \in {"None", "bool", "int"}

\* `key in x`: a key of a dict, an element of a list, a part of a string
member_test(key, x) ==
    CASE x.t = "dict" -> key \in DOMAIN x.v
      [] x.t = "list" -> \E i \in DOMAIN x.v : x.v[i] = PyStr(key)
      [] x.t = "str"  -> Contains(x.v, key)

\* lines 691-698 when statements is the empty list: the body of the if is
\* skipped and line 698 reads the local transactions, which was never bound
no_statement_transactions(statements) == [exc |-> "UnboundLocalError", value |-> PyNone]

\* lines 692-696: the transactions of the first statement, or the exception
\* raised on the way (x.get on a value that is not a dict)
statement_transactions(statements) ==
    LET \* line 695: data.get("currentTransactions") if ... in data else []
        transactions_of(data) ==
            IF member_test_raises(data) THEN [exc |-> "TypeError", value |-> PyNone]
            ELSE IF ~member_test("currentTransactions", data)
            THEN [exc |-> "none", value |-> PyList(<<>>)]
            ELSE IF data.t # "dict" THEN [exc |-> "AttributeError", value |-> PyNone]
            ELSE [exc |-> "none", value |-> data.v["currentTransactions"]]
        \* line 693: statement.get("data") if "data" in statement else {}
        data_of(statement) ==
            IF member_test_raises(statement) THEN [exc |-> "TypeError", value |-> PyNone]
            ELSE IF ~member_test("data", statement)
            THEN transactions_of(PyDict(<<>>))
            ELSE IF statement.t # "dict" THEN [exc |-> "AttributeError", value |-> PyNone]
            ELSE transactions_of(statement.v["data"])
    IN IF Len(statements.v) = 0 THEN no_statement_transactions(statements)
       ELSE data_of(statements.v[1])

\* get_statement_transactions(account_id, period) with the endpoint
\* answering the query with answer
get_statement_transactions(s, ua, cache, account_id, period, answer) ==
    LET \* lines 698-706
        checked(q, t) ==
            IF t.exc # "none" THEN CallOutcome(s, cache, t.exc, PyNone, q.requests)
            ELSE IF ~Truthy(t.value) THEN CallOutcome(s, cache, "none", PyList(<<>>), q.requests)
            ELSE IF t.value.t # "list"
            THEN CallOutcome(s, cache, "WSApiException", t.value, q.requests)
            ELSE CallOutcome(s, cache, "none", t.value, q.requests)
        \* lines 691-706: the statements the query returned
        with_statements(q) ==
            IF q.exc # "none" THEN CallOutcome(s, cache, q.exc, PyNone, q.requests)
            ELSE checked(q, statement_transactions(q.data))
    IN with_statements(lookup(s, ua, "FetchBrokerageMonthlyStatementTransactions",
                              PyDict(("accountId" :> account_id) @@ ("period" :> period)),
                              <<"brokerageMonthlyStatements">>, "array", answer))

\* a transaction of a statement
Transaction(balance) == PyDict("balance" :> PyInt(balance))

\* the statements the provider may list for an account and a period
StatementLists ==
    { <<>>,
      << PyDict("data" :> PyDict("currentTransactions" :>
             PyList(<<Transaction(100), Transaction(90)>>))) >>,
      << PyDict("data" :> PyDict("currentTransactions" :> PyList(<<Transaction(100)>>))),
         PyDict("data" :> PyDict("currentTransactions" :> PyList(<<Transaction(50)>>))) >>,
      << PyDict("data" :> PyDict("currentTransactions" :> PyList(<<>>))) >>,
      << PyDict("data" :> PyDict("currentTransactions" :> PyNone)) >>,
      << PyDict("data" :> PyDict("currentTransactions" :> PyDict("balance" :> PyInt(100)))) >>,
      << PyDict("data" :> PyDict("currentTransactions" :> PyStr("n/a"))) >>,
      << PyDict("data" :> PyDict(<<>>)) >>,
      << PyDict("data" :> PyNone) >>,
      << PyDict("data" :> PyList(<<PyStr("currentTransactions")>>)) >>,
      << PyDict("id" :> PyStr("st-1")) >>,
      << PyNone >>,
      << PyList(<<PyStr("data")>>) >> }

\* decoded answers to the statement query
StatementAnswers ==
    { TransportFailure, PyDict("message" :> PyStr("Server error")),
      PyDict("data" :> PyDict("brokerageMonthlyStatements" :> PyNone)) }
    \cup { PyDict("data" :> PyDict("brokerageMonthlyStatements" :> PyList(l))) :
             l \in StatementLists }

\* what is observed of a get_statement_transactions call
ObserveStatements(op, args, answers, out) ==
    [op |-> op, entry |-> session, args |-> args, answers |-> answers,
     exc |-> out.exc, result |-> out.result, requests |-> out.requests]

\* a client restored from a persisted session, with or without access token
InitStatements ==
    /\ session \in { s \in RestoredSessions : s.refresh_token # PyNone }
    /\ user_agent = PyNone
    /\ constructed = TRUE
    /\ account_cache = EmptyCache
    /\ security_market_data_cache = NoMarketDataCache
    /\ last = ObserveStatements("new", <<>>, <<>>,
                                CallOutcome(session, EmptyCache, "none", PyNone, <<>>))

\* get_statement_transactions(account_id, period) called on the instance
GetStatementTransactions ==
    /\ \E account_id \in {PyStr("a1"), PyStr("a2")} :
       \E period \in {PyStr("2025-10-01"), PyStr("2025-11-01")} :
       \E answer \in StatementAnswers :
       \E out \in { get_statement_transactions(session, user_agent, account_cache,
                                               account_id, period, answer) } :
          last' = ObserveStatements("get_statement_transactions", <<account_id, period>>,
                                    <<answer>>, out)
    /\ UNCHANGED <<session, user_agent, constructed, account_cache, security_market_data_cache>>

NextStatements == GetStatementTransactions

SpecStatements == InitStatements /\ [][NextStatements]_vars

-----------------------------------------------------------------------------
(* Claims about get_statement_transactions.                                *)

IsGetStatements == last.op = "get_statement_transactions"

\* the statements of the answer to the last call, or Missing
StatementsAnswered ==
    IF last.answers[1] = TransportFailure THEN Missing
    ELSE PathValue(last.answers[1], <<"data", "brokerageMonthlyStatements">>, 1)

\* C31 as stated: whenever the provider answers the statement query, the
\* call returns a list of transactions or raises WSApiException; when the
\* answer lists no statement for the period the call returns the empty list.
C31_Original_ListOrApiError ==
    (IsGetStatements /\ last.answers[1] # TransportFailure) =>
        /\ \/ last.exc = "none" /\ last.result.t = "list"
           \/ last.exc = "WSApiException"
        /\ StatementsAnswered = PyList(<<>>) =>
               (last.exc = "none" /\ last.result = PyList(<<>>))

-----------------------------------------------------------------------------
(* The calls that send requests, on one client: the bootstrap, the login,  *)
(* the token info and a paginated query.                                   *)

\* the account listing as get_accounts asks for it (lines 412-422)
AccountListing ==
    [query_name |-> "FetchAllAccountFinancials",
     variables |-> PyDict(("pageSize" :> PyInt(25)) @@ ("identityId" :> PyStr("identity-1"))),
     path |-> <<"identity", "accounts", "edges">>, expect_type |-> "array",
     answers |-> AccountPages]

\* login_internal with or without a code; the token endpoint does not
\* answer, issues a pair or rejects the credentials
LoginOnce ==
    LoginInternalWith({PyNone, PyStr("123456")}, {NoCallback},
        { TransportFailure,
          PyDict(("access_token" :> AccessTok(1)) @@ ("refresh_token" :> RefreshTok(1))),
          PyDict("error" :> PyStr("invalid_grant")) })

\* get_token_info() on a constructed instance
GetTokenInfoOnce == constructed /\ GetTokenInfo

\* do_graphql_query for the account listing on a constructed instance
QueryAccountListing ==
    /\ constructed
    /\ \E filter_fn \in {NoFilter, StatusOpen} : \E load_all_pages \in BOOLEAN :
       \E answers \in AnswerSeqs(session, user_agent, AccountListing, filter_fn,
                                 load_all_pages, <<>>) :
          last' = [pending |-> last.pending]
                  @@ ObserveQuery("do_graphql_query", AccountListing, filter_fn,
                                  load_all_pages, answers,
                                  run_query(session, user_agent, AccountListing, filter_fn,
                                            load_all_pages, answers))
    /\ UNCHANGED <<session, user_agent, constructed, account_cache, security_market_data_cache>>

\* check_oauth_token without a persist callback; the probe is not delivered,
\* accepted or rejected, and the token endpoint answers as for LoginOnce
CheckOnce ==
    CheckOauthTokenWith({<<NoCallback, PyNone>>},
        { TransportFailure, PyDict(<<>>), PyDict("message" :> PyStr("Not Authorized.")) },
        { TransportFailure,
          PyDict(("access_token" :> AccessTok(1)) @@ ("refresh_token" :> RefreshTok(1))),
          PyDict("error" :> PyStr("invalid_grant")) })

\* the sessions a caller restores here: tokens known, each identifier known
\* or not
RequestSessions ==
    { s \in PartialSessions : s.access_token # PyNone /\ s.refresh_token # PyNone }

\* the constructor with one of RequestSessions or none
ConstructOnce == ConstructWith(RequestSessions)

\* start_session() without a session to restore
StartOnce == StartSessionWith({})

NextRequests ==
    \/ ConstructOnce
    \/ StartOnce
    \/ LoginOnce
    \/ CheckOnce
    \/ GetTokenInfoOnce
    \/ QueryAccountListing

SpecRequests == Init /\ [][NextRequests]_vars

\* no request of the last call was sent twice
NoRequestTwice ==
    \A i, j \in DOMAIN last.requests : last.requests[i] = last.requests[j] => i = j

\* C35: login_internal sends one request, get_token_info at most one,
\* start_session at most two and none of them twice, do_graphql_query one
\* per page; a request that fails in transport is the last request of the
\* call, and the call raises.
C35_NoResend ==
    /\ IsLogin =>
          /\ Len(last.requests) = 1
          /\ last.answers.token = TransportFailure => last.exc = "CurlException"
    /\ IsGetTokenInfo =>
          /\ Len(last.requests) <= 1
          /\ last.answers[1] = TransportFailure =>
                 (last.exc = "CurlException" /\ Len(last.requests) = 1)
    /\ IsStart =>
          /\ Len(last.requests) <= 2
          /\ NoRequestTwice
          /\ last.answers.page = TransportFailure =>
                 (last.exc = "CurlException" /\ Len(last.requests) = 1)
          /\ last.answers.js = TransportFailure => last.exc = "CurlException"
    /\ IsQuery =>
          /\ Len(last.requests) = Len(last.answers)
          /\ \A k \in DOMAIN last.answers :
                 (last.answers[k] = TransportFailure \/ ~IsPage(last.answers[k], last.query))
                     => (k = Len(last.answers) /\ last.exc # "none")

\* the second page of a listing was not delivered: two requests, the first
\* answered, and the call raised CurlException
C35_Witness ==
    /\ IsQuery /\ last.load_all_pages
    /\ Len(last.requests) = 2
    /\ last.answers[2] = TransportFailure
    /\ last.exc = "CurlException"
    /\ last.entry.token_info # PyNone

\* the three identifiers of the session that the tokens do not carry
IdentityFields == {"session_id", "wssdi", "client_id"}

\* the last call is one of those that take no restored session
KeepsIdentity ==
    \/ IsLogin \/ IsCheck \/ IsGetTokenInfo \/ IsQuery
    \/ (IsStart /\ last.args.sess = PyNone)

\* C36: login_internal, check_oauth_token, get_token_info, do_graphql_query
\* and start_session without a restored session leave every truthy
\* session_id, wssdi and client_id as it was; the session_id changes only in
\* a start_session that found none and returned, and is then the generated
\* UUID.
C36_IdentityStable ==
    KeepsIdentity =>
        /\ \A f \in IdentityFields : Truthy(last.entry[f]) => session[f] = last.entry[f]
        /\ session.session_id # last.entry.session_id =>
               /\ IsStart /\ last.exc = "none"
               /\ ~Truthy(last.entry.session_id)
               /\ session.session_id \in Uuids

\* start_session() on a session that knew its device and session ids but
\* not its client id: the page and the script were fetched, the client id
\* was scraped and the two ids kept
C36_Witness ==
    /\ IsStart /\ last.op = "start_session" /\ last.args.sess = PyNone
    /\ last.exc = "none" /\ Len(last.requests) = 2
    /\ last.entry.wssdi = PyStr("dev0") /\ session.wssdi = PyStr("dev0")
    /\ last.entry.session_id = PyStr("sid0") /\ session.session_id = PyStr("sid0")
    /\ last.entry.client_id = PyNone /\ session.client_id # PyNone

-----------------------------------------------------------------------------
(* The OTP header of the login request and the OTP challenge.              *)

\* the request of the last login carried the OTP header
SentOtpHeader == "x-wealthsimple-otp" \in DOMAIN last.requests[1].headers

\* C37 (as stated): the login request carries the header
\* x-wealthsimple-otp, with value "<otp>;remember=true", exactly when an OTP
\* answer was given (read as the truth test of line 239), and an
\* invalid_grant answer raises OTPRequiredException exactly when the
\* request carried no such header, for every otp_answer, "" included.
C37_Original_ChallengeIffNoOtpHeader ==
    IsLogin =>
        /\ SentOtpHeader <=> Truthy(last.args.otp_answer)
        /\ SentOtpHeader =>
               last.requests[1].headers["x-wealthsimple-otp"]
                   = last.args.otp_answer.v \o ";remember=true"
        /\ AnswerInvalidGrant =>
               (last.exc = "OTPRequiredException" <=> ~SentOtpHeader)

-----------------------------------------------------------------------------
(* The token pair across login_internal and check_oauth_token.             *)

\* the pair carried by the token endpoint's answer to the last call
AnswerPair ==
    <<last.answers.token.v["access_token"], last.answers.token.v["refresh_token"]>>

\* C39 (as stated): after login_internal or check_oauth_token, returning or
\* raising, the session's token pair is the pair it had before the call or
\* the pair of the one answer of the token endpoint; an access token of one
\* answer is never paired with a refresh token from elsewhere.
C39_Original_TokensReplacedTogether ==
    (IsLogin \/ IsCheck) =>
        \/ TokenPair(session) = TokenPair(last.entry)
        \/ (AnswerHasBoth /\ TokenPair(session) = AnswerPair)

-----------------------------------------------------------------------------
(* get_security_market_data with the cache callbacks of the caller.        *)

\* what the caller's cache holds when it is installed: nothing, the market
\* data of sec-s-1, or an empty mapping for sec-s-1
MarketDataStores ==
    { PyDict(<<>>),
      PyDict("sec-s-1" :> Security(PyNone)),
      PyDict("sec-s-1" :> PyDict(<<>>)) }

\* what is observed of a get_security_market_data call
ObserveMarketData(op, args, answers, out) ==
    [op |-> op, entry |-> session, md_at_entry |-> security_market_data_cache,
     args |-> args, answers |-> answers, exc |-> out.exc, result |-> out.data,
     requests |-> out.requests, calls |-> out.calls]

\* a client restored from a persisted session, no callbacks installed
InitMarketData ==
    /\ session = [WSAPISession EXCEPT !.client_id = PyStr("cid0"),
                                      !.session_id = PyStr("sid0"),
                                      !.wssdi = PyStr("dev0"),
                                      !.access_token = PyStr("atok0"),
                                      !.refresh_token = PyStr("rtok0")]
    /\ user_agent = PyNone
    /\ constructed = TRUE
    /\ account_cache = EmptyCache
    /\ security_market_data_cache = NoMarketDataCache
    /\ last = ObserveMarketData("new", [security_id |-> PyNone, use_cache |-> TRUE], <<>>,
                                [exc |-> "none", data |-> PyNone, requests |-> <<>>,
                                 calls |-> <<>>])

\* set_security_market_data_cache(getter, setter): each a callback of the
\* caller or None
SetSecurityMarketDataCacheAny ==
    /\ \E getter \in BOOLEAN : \E setter \in BOOLEAN :
       \E store \in MarketDataStores : \E returns \in {"value", "none", "copy"} :
          security_market_data_cache' = MarketDataCacheReturning(getter, setter, store, returns)
    /\ UNCHANGED <<session, user_agent, constructed, account_cache, last>>

\* get_security_market_data(security_id, use_cache) called on the instance
GetSecurityMarketData ==
    /\ \E security_id \in {PyStr("sec-s-1"), PyStr("sec-s-2")} : \E use_cache \in BOOLEAN :
       \E sent \in { get_security_market_data(session, user_agent, security_market_data_cache,
                                              security_id, use_cache, TransportFailure).requests } :
       \E answer \in (IF sent = <<>> THEN {NoAnswer} ELSE AnswersTo(sent[1])) :
       \E out \in { get_security_market_data(session, user_agent, security_market_data_cache,
                                             security_id, use_cache, answer) } :
          /\ security_market_data_cache' = out.md
          /\ last' = ObserveMarketData("get_security_market_data",
                                       [security_id |-> security_id, use_cache |-> use_cache],
                                       <<answer>>, out)
    /\ UNCHANGED <<session, user_agent, constructed, account_cache>>

NextMarketData ==
    \/ SetSecurityMarketDataCacheAny
    \/ GetSecurityMarketData

SpecMarketData == InitMarketData /\ [][NextMarketData]_vars

IsGetMarketData == last.op = "get_security_market_data"

\* the last call ran with both callbacks installed and use_cache true
UsedCache ==
    /\ last.args.use_cache
    /\ last.md_at_entry.getter /\ last.md_at_entry.setter

\* what the caller's cache held for the security asked for
CachedValue == GetOr(last.md_at_entry.store, last.args.security_id.v, PyNone)

\* the security of the provider's answer to the last call
FetchedValue == last.answers[1].v["data"].v["security"]

\* the calls the last call made to the caller's setter
SetterCalls == SelectSeq(last.calls, LAMBDA c : c[1] = "setter")

\* C38: with both callbacks and use_cache, a non-empty value of the getter
\* is returned without a request; otherwise one FetchSecurityMarketData
\* request is sent and, when it yields a value, the setter is called once
\* with that value and its return value is returned. With a callback
\* missing or use_cache false no callback is called and the fetched value
\* is returned.
C38_CacheCallbacks ==
    IsGetMarketData =>
        /\ (UsedCache /\ Truthy(CachedValue)) =>
               /\ last.requests = <<>> /\ last.exc = "none"
               /\ last.result = CachedValue
               /\ SetterCalls = <<>>
        /\ ~(UsedCache /\ Truthy(CachedValue)) =>
               /\ Len(last.requests) = 1
               /\ IsQueryRequest(last.requests[1], "FetchSecurityMarketData")
               /\ Get(last.requests[1].json, "variables")
                      = PyDict("id" :> last.args.security_id)
        /\ (UsedCache /\ ~Truthy(CachedValue)) =>
               /\ last.calls[1] = <<"getter", last.args.security_id>>
               /\ last.exc = "none" =>
                      /\ SetterCalls = <<<<"setter", last.args.security_id, FetchedValue>>>>
                      /\ last.result = cache_setter(last.md_at_entry, last.args.security_id,
                                                    FetchedValue)
               /\ last.exc # "none" => SetterCalls = <<>>
        /\ ~UsedCache =>
               /\ last.calls = <<>>
               /\ last.exc = "none" => last.result = FetchedValue

\* the getter had an empty mapping for the security, the data was fetched
\* and handed to a setter that returns nothing: the call returned None
C38_Witness ==
    /\ IsGetMarketData /\ UsedCache
    /\ CachedValue = PyDict(<<>>)
    /\ last.md_at_entry.returns = "none"
    /\ last.exc = "none" /\ Len(last.requests) = 1
    /\ FetchedValue # PyNone
    /\ Len(last.calls) = 2
    /\ last.result = PyNone

=============================================================================
